---- MODULE Spec2Model ----
(***************************************************************************)
(* Kaplan-Meier plot component (src/unnamed/part_000): the survival series *)
(* builder (buildSeries, buildEventSeries, buildSurvivalSeries) and the    *)
(* column-mapping resolution of the KaplanMeierPlot component (heuristic,  *)
(* then the /api/kaplan/infer-columns collaborator, guarded by the         *)
(* effect's `cancelled` flag).                                             *)
(*                                                                         *)
(* Conventions.                                                            *)
(*  - A JavaScript string is a sequence of one-character strings.  The     *)
(*    empty sequence also stands for an absent (undefined) key: the code   *)
(*    only ever tests keys for truthiness.                                 *)
(*  - A JavaScript number is an exact rational [n, d] in lowest terms      *)
(*    (d > 0); IEEE rounding is not modelled.  NaN is a separate value.    *)
(*  - A row (a JavaScript object) is a sequence of [k, v] pairs with       *)
(*    distinct keys, in the object's key order.                            *)
(*  - A Map is a sequence of entries in insertion order.                   *)
(***************************************************************************)
EXTENDS Integers, Sequences, FiniteSets, TLC

\* ------------------------------------------------------------------------
\* Numbers

Abs(x) == IF x < 0 THEN -x ELSE x

Min(a, b) == IF a <= b THEN a ELSE b

\* F applied to the value of x, which is computed once
With(x, F(_)) == CHOOSE y \in {F(v) : v \in {x}} : TRUE

RECURSIVE GCD(_, _)
GCD(a, b) == IF b = 0 THEN a ELSE GCD(b, a % b)

\* the rational n/d (d # 0) in lowest terms with a positive denominator
Rat(n, d) ==
    LET g == GCD(Abs(n), Abs(d))
        s == IF d < 0 THEN -1 ELSE 1
    IN  [n |-> (s * n) \div g, d |-> (s * d) \div g]

Int2Rat(i) == [n |-> i, d |-> 1]

RatMul(a, b) == Rat(a.n * b.n, a.d * b.d)

RatLE(a, b) == a.n * b.d <= b.n * a.d

RatLT(a, b) == a.n * b.d < b.n * a.d

\* ------------------------------------------------------------------------
\* JavaScript values held by the rows

Undefined == [t |-> "undefined"]

Null == [t |-> "null"]

NaNValue == [t |-> "number", finite |-> FALSE]

NumV(q) == [t |-> "number", finite |-> TRUE, q |-> q]

IntV(i) == NumV(Int2Rat(i))

StrV(s) == [t |-> "string", s |-> s]

BoolV(b) == [t |-> "boolean", b |-> b]

IsNullish(v) == v.t \in {"undefined", "null"}

\* ------------------------------------------------------------------------
\* Strings

DigitChars == <<"0", "1", "2", "3", "4", "5", "6", "7", "8", "9">>

IsDigit(c) == \E i \in 1..10 : DigitChars[i] = c

DigitVal(c) == (CHOOSE i \in 1..10 : DigitChars[i] = c) - 1

UpperChars == <<"A", "B", "C", "D", "E", "F", "G", "H", "I", "J", "K", "L", "M",
                "N", "O", "P", "Q", "R", "S", "T", "U", "V", "W", "X", "Y", "Z">>

LowerChars == <<"a", "b", "c", "d", "e", "f", "g", "h", "i", "j", "k", "l", "m",
                "n", "o", "p", "q", "r", "s", "t", "u", "v", "w", "x", "y", "z">>

\* String.prototype.toLowerCase, one character
LowerChar(c) ==
    IF \E i \in 1..26 : UpperChars[i] = c
    THEN LowerChars[CHOOSE i \in 1..26 : UpperChars[i] = c]
    ELSE c

ToLowerCase(s) == [i \in 1..Len(s) |-> LowerChar(s[i])]

\* the characters the regular expression class \s matches (those the model uses)
IsSpace(c) == c \in {" ", "\t", "\n"}

RECURSIVE TrimStart(_)
TrimStart(s) ==
    IF s # <<>> /\ IsSpace(Head(s)) THEN TrimStart(Tail(s)) ELSE s

RECURSIVE TrimEnd(_)
TrimEnd(s) ==
    IF s # <<>> /\ IsSpace(s[Len(s)]) THEN TrimEnd(SubSeq(s, 1, Len(s) - 1)) ELSE s

\* String.prototype.trim
Trim(s) == TrimEnd(TrimStart(s))

\* s.replace(/\s+/g, '')
RemoveSpaces(s) == SelectSeq(s, LAMBDA c : ~IsSpace(c))

\* s.replace(/\s+/g, '_'): every run of whitespace becomes one underscore
RECURSIVE UnderscoreSpaces(_)
UnderscoreSpaces(s) ==
    IF s = <<>> THEN <<>>
    ELSE IF IsSpace(Head(s))
         THEN <<"_">> \o UnderscoreSpaces(TrimStart(s))
         ELSE <<Head(s)>> \o UnderscoreSpaces(Tail(s))

\* the keys compared in lower case only, separators kept
NormalizeKeyCaseOnly(s) == ToLowerCase(s)

\* s.replace(/[\s_]+/g, '').toLowerCase()
NormalizeKey(s) == ToLowerCase(SelectSeq(s, LAMBDA c : ~IsSpace(c) /\ c # "_"))

RECURSIVE DigitsToNat(_)
DigitsToNat(s) ==
    IF s = <<>> THEN 0
    ELSE DigitsToNat(SubSeq(s, 1, Len(s) - 1)) * 10 + DigitVal(s[Len(s)])

AllDigits(s) == \A i \in 1..Len(s) : IsDigit(s[i])

RECURSIVE Pow10(_)
Pow10(k) == IF k = 0 THEN 1 ELSE 10 * Pow10(k - 1)

\* index of the first character of s that is in set cs, 0 if none
FirstIn(s, cs) ==
    IF \E i \in 1..Len(s) : s[i] \in cs
    THEN CHOOSE i \in 1..Len(s) : s[i] \in cs /\ \A j \in 1..(i - 1) : s[j] \notin cs
    ELSE 0

HasSign(s) == s # <<>> /\ Head(s) \in {"+", "-"}

Unsigned(s) == IF HasSign(s) THEN Tail(s) ELSE s

SignOf(s) == IF s # <<>> /\ Head(s) = "-" THEN -1 ELSE 1

\* Number(s) for a string s of the characters 0-9 e E . + - (what parseNumber
\* leaves): the StrDecimalLiteral grammar, the empty string being 0 and every
\* string outside the grammar being NaN.
StringToNumber(s) ==
    IF s = <<>> THEN IntV(0)
    ELSE
      LET ePos  == FirstIn(s, {"e", "E"})
          mant  == IF ePos = 0 THEN s ELSE SubSeq(s, 1, ePos - 1)
          expo  == IF ePos = 0 THEN <<>> ELSE SubSeq(s, ePos + 1, Len(s))
          body  == Unsigned(mant)
          dot   == FirstIn(body, {"."})
          whole == IF dot = 0 THEN body ELSE SubSeq(body, 1, dot - 1)
          frac  == IF dot = 0 THEN <<>> ELSE SubSeq(body, dot + 1, Len(body))
          expOk == ePos = 0 \/ (Unsigned(expo) # <<>> /\ AllDigits(Unsigned(expo)))
          manOk == AllDigits(whole) /\ AllDigits(frac) /\ Len(whole) + Len(frac) > 0
          e     == IF ePos = 0 THEN 0 ELSE SignOf(expo) * DigitsToNat(Unsigned(expo))
          m     == Rat(SignOf(mant) * DigitsToNat(whole \o frac), Pow10(Len(frac)))
      IN  IF ~(expOk /\ manOk) THEN NaNValue
          ELSE IF e >= 0 THEN NumV(RatMul(m, Int2Rat(Pow10(e))))
          ELSE NumV(RatMul(m, Rat(1, Pow10(-e))))

NumericChars == {"0", "1", "2", "3", "4", "5", "6", "7", "8", "9", "e", "E", ".", "+", "-"}

\* raw.trim().replace(/[^0-9eE.+-]/g, '')
StripNonNumeric(s) == SelectSeq(Trim(s), LAMBDA c : c \in NumericChars)

\* parseNumber: the number, or Undefined
parseNumber(raw) ==
    IF IsNullish(raw) THEN Undefined
    ELSE IF raw.t = "number" THEN (IF raw.finite THEN raw ELSE Undefined)
    ELSE IF raw.t = "string"
         THEN LET parsed == StringToNumber(StripNonNumeric(raw.s))
              IN  IF parsed.finite THEN parsed ELSE Undefined
    ELSE Undefined

\* the string constants of the program, as character sequences
sTrue == <<"t", "r", "u", "e">>

sFalse == <<"f", "a", "l", "s", "e">>

sYes == <<"y", "e", "s">>

sNo == <<"n", "o">>

\* parseBoolean: BoolV(b), or Undefined
parseBoolean(raw) ==
    IF IsNullish(raw) THEN Undefined
    ELSE IF raw.t = "boolean" THEN raw
    ELSE IF raw.t = "number"
         THEN (IF raw.finite THEN BoolV(raw.q.n > 0) ELSE Undefined)
    ELSE IF raw.t = "string"
         THEN LET normalized == ToLowerCase(Trim(raw.s))
              IN  IF normalized = <<>> THEN Undefined
                  ELSE IF normalized \in {sTrue, sYes, <<"y">>, <<"1">>} THEN BoolV(TRUE)
                  ELSE IF normalized \in {sFalse, sNo, <<"n">>, <<"0">>} THEN BoolV(FALSE)
                  ELSE Undefined
    ELSE Undefined

\* ------------------------------------------------------------------------
\* Rows

\* `key in row`
HasKey(row, key) == \E i \in 1..Len(row) : row[i].k = key

\* row[key] for a key the row has
Prop(row, key) == row[CHOOSE i \in 1..Len(row) : row[i].k = key].v

\* getValue: exact key, trimmed, whitespace removed, whitespace underscored,
\* then the first key of the row equal up to case, whitespace and underscores
getValue(row, key) ==
    IF key = <<>> THEN Undefined
    ELSE IF HasKey(row, key) THEN Prop(row, key)
    ELSE
      LET trimmed          == Trim(key)
          collapsed        == RemoveSpaces(trimmed)
          underscored      == UnderscoreSpaces(trimmed)
          normalizedTarget == NormalizeKey(trimmed)
          hits == {i \in 1..Len(row) : NormalizeKey(row[i].k) = normalizedTarget}
      IN  IF trimmed # <<>> /\ HasKey(row, trimmed) THEN Prop(row, trimmed)
          ELSE IF collapsed # <<>> /\ HasKey(row, collapsed) THEN Prop(row, collapsed)
          ELSE IF underscored # <<>> /\ HasKey(row, underscored) THEN Prop(row, underscored)
          ELSE IF normalizedTarget = <<>> THEN Undefined
          ELSE IF hits # {} THEN row[CHOOSE i \in hits : \A j \in hits : i <= j].v
          ELSE Undefined

\* ------------------------------------------------------------------------
\* String(value)

RECURSIVE NatToString(_)
NatToString(i) ==
    IF i < 10 THEN <<DigitChars[i + 1]>>
    ELSE NatToString(i \div 10) \o <<DigitChars[(i % 10) + 1]>>

\* the digits of r/d after the decimal point (r < d), at most k of them
RECURSIVE FractionDigits(_, _, _)
FractionDigits(r, d, k) ==
    IF r = 0 \/ k = 0 THEN <<>>
    ELSE <<DigitChars[((r * 10) \div d) + 1]>> \o FractionDigits((r * 10) % d, d, k - 1)

\* Number.prototype.toString for the exact rational q (decimal notation)
NumberToString(q) ==
    LET a == Abs(q.n)
    IN  (IF q.n < 0 THEN <<"-">> ELSE <<>>)
        \o NatToString(a \div q.d)
        \o (IF a % q.d = 0 THEN <<>> ELSE <<".">> \o FractionDigits(a % q.d, q.d, 17))

\* String(v) for a value that is not null or undefined
StringOf(v) ==
    IF v.t = "string" THEN v.s
    ELSE IF v.t = "boolean" THEN (IF v.b THEN sTrue ELSE sFalse)
    ELSE IF v.finite THEN NumberToString(v.q)
    ELSE <<"N", "a", "N">>

\* a ?? b
Coalesce(a, b) == IF IsNullish(a) THEN b ELSE a

\* ------------------------------------------------------------------------
\* buildEventSeries: the tally of the rows

sGroup == <<"G", "r", "o", "u", "p">>

sCensored == <<"c", "e", "n", "s", "o", "r", "e", "d">>

sCensor == <<"c", "e", "n", "s", "o", "r">>

sCensoredCap == <<"C", "e", "n", "s", "o", "r", "e", "d">>

sCensorCap == <<"C", "e", "n", "s", "o", "r">>

EventTokens ==
    { sTrue, sYes, <<"y">>, <<"e", "v", "e", "n", "t">>, <<"d", "e", "a", "d">>,
      <<"d", "e", "a", "t", "h">>, <<"f", "a", "i", "l", "e", "d">>,
      <<"f", "a", "i", "l", "u", "r", "e">>, <<"1">> }

CensoredTokens ==
    { sFalse, sNo, <<"n">>, sCensored, sCensor, <<"a", "l", "i", "v", "e">>,
      <<"s", "u", "r", "v", "i", "v", "e", "d">>, <<"0">> }

\* the group label of a row
GroupOf(row, groupKey, fallback) ==
    LET rawGroup == IF groupKey # <<>> THEN getValue(row, groupKey) ELSE Undefined
    IN  IF ~IsNullish(rawGroup) THEN StringOf(rawGroup) ELSE fallback

\* isEvent of a row: an event unless the event column says otherwise
IsEvent(row, eventKey) ==
    LET eventRaw == IF eventKey # <<>> THEN getValue(row, eventKey) ELSE Undefined
    IN  IF IsNullish(eventRaw) THEN TRUE
        ELSE LET s == ToLowerCase(Trim(StringOf(eventRaw)))
                 n == parseNumber(eventRaw)
             IN  IF n # Undefined THEN n.q.n > 0
                 ELSE IF s \in EventTokens THEN TRUE
                 ELSE IF s \in CensoredTokens THEN FALSE
                 ELSE TRUE

\* the explicit flag left unread
IsCensoredByEventOnly(row, censorKey, isEvent) == ~isEvent

\* censored of a row: the explicit flag if it parses, else !isEvent
IsCensored(row, censorKey, isEvent) ==
    LET flagRaw ==
            IF censorKey # <<>> THEN getValue(row, censorKey)
            ELSE Coalesce(getValue(row, sCensored),
                 Coalesce(getValue(row, sCensor),
                 Coalesce(getValue(row, sCensoredCap), getValue(row, sCensorCap))))
        flag == parseBoolean(flagRaw)
    IN  IF flag # Undefined THEN flag.b ELSE ~isEvent

\* index of key k in a Map (a sequence of entries [k, ...]), 0 if absent
IndexOf(map, k) ==
    IF \E i \in 1..Len(map) : map[i].k = k
    THEN CHOOSE i \in 1..Len(map) : map[i].k = k
    ELSE 0

\* timeline.set(time, bucket) with the row counted in the bucket
CountInTimeline(timeline, time, asEvent) ==
    LET i      == IndexOf(timeline, time)
        bucket == IF i = 0 THEN [k |-> time, events |-> 0, censored |-> 0] ELSE timeline[i]
        after  == IF asEvent
                  THEN [bucket EXCEPT !.events = @ + 1]
                  ELSE [bucket EXCEPT !.censored = @ + 1]
    IN  IF i = 0 THEN Append(timeline, after) ELSE [timeline EXCEPT ![i] = after]

\* the body of rows.forEach in buildEventSeries: one row added to grouped
TallyRow(grouped, row, mapping) ==
    LET time == parseNumber(getValue(row, mapping.time))
    IN  IF time = Undefined THEN grouped
        ELSE
          LET group    == GroupOf(row, mapping.group, sGroup)
              isEvent  == IsEvent(row, mapping.event)
              censored == IsCensored(row, mapping.censored, isEvent)
              g        == IndexOf(grouped, group)
              asEvent  == isEvent /\ ~censored
          IN  IF g = 0
              THEN Append(grouped,
                          [k |-> group, timeline |-> CountInTimeline(<<>>, time.q, asEvent)])
              ELSE [grouped EXCEPT ![g].timeline = CountInTimeline(@, time.q, asEvent)]

RECURSIVE TallyAll(_, _, _)
TallyAll(grouped, rows, mapping) ==
    IF rows = <<>> THEN grouped
    ELSE TallyAll(TallyRow(grouped, Head(rows), mapping), Tail(rows), mapping)

\* insertion of x into a sequence sorted by key(.), after the elements not
\* greater than it (Array.prototype.sort is stable)
RECURSIVE InsertByTime(_, _)
InsertByTime(sorted, x) ==
    IF sorted = <<>> THEN <<x>>
    ELSE IF RatLT(x.time, Head(sorted).time) THEN <<x>> \o sorted
    ELSE <<Head(sorted)>> \o InsertByTime(Tail(sorted), x)

\* points.sort((a, b) => a.time - b.time)
RECURSIVE SortByTime(_)
SortByTime(points) ==
    IF points = <<>> THEN <<>>
    ELSE InsertByTime(SortByTime(SubSeq(points, 1, Len(points) - 1)), points[Len(points)])

\* Array.from(timeline.keys()).sort((a, b) => a - b)
OrderedTimes(timeline) ==
    LET sorted == SortByTime([i \in 1..Len(timeline) |-> [time |-> timeline[i].k]])
    IN  [i \in 1..Len(sorted) |-> sorted[i].time]

RECURSIVE SumBuckets(_)
SumBuckets(timeline) ==
    IF timeline = <<>> THEN 0
    ELSE Head(timeline).events + Head(timeline).censored + SumBuckets(Tail(timeline))

\* map.set(k, v)
MapSet(map, k, v) ==
    LET i == IndexOf(map, k)
    IN  IF i = 0 THEN Append(map, [k |-> k, v |-> v]) ELSE [map EXCEPT ![i].v = v]

\* n copies of x
Repeat(x, n) == [i \in 1..n |-> x]

\* ------------------------------------------------------------------------
\* buildSurvivalSeries: helpers

IsWordChar(c) ==
    \/ IsDigit(c)
    \/ c = "_"
    \/ \E i \in 1..26 : UpperChars[i] = c \/ LowerChars[i] = c

UpperChar(c) ==
    IF \E i \in 1..26 : LowerChars[i] = c
    THEN UpperChars[CHOOSE i \in 1..26 : LowerChars[i] = c]
    ELSE c

\* s.replace(/[_-]+/g, ' ').replace(/\s+/g, ' '): every run of underscores,
\* hyphens and whitespace becomes one space
RECURSIVE SpaceSeparators(_)
SpaceSeparators(s) ==
    IF s = <<>> THEN <<>>
    ELSE IF IsSpace(Head(s)) \/ Head(s) \in {"_", "-"}
         THEN LET rest == SpaceSeparators(Tail(s))
              IN  IF rest # <<>> /\ Head(rest) = " " THEN rest ELSE <<" ">> \o rest
         ELSE <<Head(s)>> \o SpaceSeparators(Tail(s))

\* s.replace(/\b\w/g, (char) => char.toUpperCase())
CapitalizeWords(s) ==
    [i \in 1..Len(s) |->
        IF IsWordChar(s[i]) /\ (i = 1 \/ ~IsWordChar(s[i - 1]))
        THEN UpperChar(s[i]) ELSE s[i]]

sSeries == <<"S", "e", "r", "i", "e", "s">>

prettifyLabel(value) ==
    LET label == Trim(CapitalizeWords(SpaceSeparators(value)))
    IN  IF label = <<>> THEN sSeries ELSE label

\* ensurePercent; 100 and 1 are the numbers of the source line
ensurePercent(value) ==
    IF RatLE(value, Int2Rat(1)) THEN RatMul(value, Int2Rat(100)) ELSE value

\* the body of rows.forEach in buildSurvivalSeries: one row added to grouped
CollectRow(grouped, row, mapping) ==
    LET time     == parseNumber(getValue(row, mapping.time))
        survival == parseNumber(getValue(row, mapping.survival))
    IN  IF time = Undefined \/ survival = Undefined THEN grouped
        ELSE
          LET group    == GroupOf(row, mapping.group, prettifyLabel(mapping.survival))
              percent  == ensurePercent(survival.q)
              flag     == parseBoolean(IF mapping.censored # <<>>
                                       THEN getValue(row, mapping.censored)
                                       ELSE getValue(row, sCensored))
              censored == IF flag # Undefined THEN flag.b ELSE FALSE
              g        == IndexOf(grouped, group)
              point    == [time |-> time.q, survival |-> percent]
              series   == IF g = 0
                          THEN [k |-> group,
                                steps |-> <<[time |-> Int2Rat(0), survival |-> Int2Rat(100)]>>,
                                censored |-> <<>>,
                                atRiskMap |-> <<>>]
                          ELSE grouped[g]
              after    == [series EXCEPT
                             !.steps = Append(@, point),
                             !.censored = IF censored THEN Append(@, point) ELSE @]
          IN  IF g = 0 THEN Append(grouped, after) ELSE [grouped EXCEPT ![g] = after]

RECURSIVE CollectAll(_, _, _)
CollectAll(grouped, rows, mapping) ==
    IF rows = <<>> THEN grouped
    ELSE CollectAll(CollectRow(grouped, Head(rows), mapping), Tail(rows), mapping)

\* where the zero point goes once the steps are sorted: in front of them unless
\* the first step is at time 0, whose survival is then overwritten
ForceStart(sorted) ==
    IF sorted = <<>> \/ sorted[1].time # Int2Rat(0)
    THEN <<[time |-> Int2Rat(0), survival |-> Int2Rat(100)]>> \o sorted
    ELSE [sorted EXCEPT ![1].survival = Int2Rat(100)]

\* the body of grouped.forEach in buildSurvivalSeries
NormalizeSeries(series) ==
    [series EXCEPT
       !.steps = ForceStart(SortByTime(@)),
       !.censored = SortByTime(@)]

\* ------------------------------------------------------------------------
\* The render: the ticks, the sorted copy of the steps, the risk table

RatSub(a, b) == Rat(a.n * b.d - b.n * a.d, a.d * b.d)

\* Math.ceil
Ceil(q) == -((-q.n) \div q.d)

\* the 'no data' text of the risk table
sNoData == <<"-">>

\* the nearest later recorded time taken instead of the nearest earlier one
ClosestTimeAfter(map, time) ==
    LET later == {i \in 1..Len(map) : RatLE(time, map[i].k)}
    IN  IF later = {} THEN Int2Rat(-1)
        ELSE map[CHOOSE i \in later : \A j \in later : RatLE(map[i].k, map[j].k)].k

\* closestTime after the loop over the recorded times: the largest of those
\* that are <= time and > -1, and -1 if there is none
ClosestTime(map, time) ==
    LET before == {i \in 1..Len(map) :
                      RatLE(map[i].k, time) /\ RatLT(Int2Rat(-1), map[i].k)}
    IN  IF before = {} THEN Int2Rat(-1)
        ELSE map[CHOOSE i \in before : \A j \in before : RatLE(map[j].k, map[i].k)].k

getAtRiskAtTime(series, time) ==
    LET map == series.atRiskMap
    IN  IF map = <<>> THEN StrV(sNoData)
        ELSE IF IndexOf(map, time) # 0 THEN IntV(map[IndexOf(map, time)].v)
        ELSE LET closestTime == ClosestTime(map, time)
             IN  IF closestTime # Int2Rat(-1)
                 THEN IntV(map[IndexOf(map, closestTime)].v)
                 ELSE IF series.steps # <<>> /\ "atRisk" \in DOMAIN series.steps[1]
                      THEN IntV(series.steps[1].atRisk)
                      ELSE StrV(sNoData)

\* the times of all the steps of all the series
AllTimes(seriesList) ==
    UNION {{seriesList[i].steps[j].time : j \in 1..Len(seriesList[i].steps)} :
              i \in 1..Len(seriesList)}

MinTime(times) == CHOOSE t \in times : \A u \in times : RatLE(t, u)

MaxTime(times) == CHOOSE t \in times : \A u \in times : RatLE(u, t)

\* tickInterval for a time range
TickInterval(timeRange) ==
    IF RatLT(Int2Rat(100), timeRange) THEN 20
    ELSE IF RatLT(Int2Rat(50), timeRange) THEN 10
    ELSE IF RatLT(Int2Rat(20), timeRange) THEN 5
    ELSE IF RatLT(Int2Rat(10), timeRange) THEN 2
    ELSE 1

\* for (t = 0; t <= Math.ceil(maxTime); t += tickInterval) if (t >= minTime) push
TickVals(seriesList) ==
    LET times        == AllTimes(seriesList)
        minTime      == MinTime(times)
        maxTime      == MaxTime(times)
        tickInterval == TickInterval(RatSub(maxTime, minTime))
        last         == IF Ceil(maxTime) < 0 THEN -1 ELSE Ceil(maxTime) \div tickInterval
        ticks        == [k \in 1..(last + 1) |-> Int2Rat((k - 1) * tickInterval)]
    IN  SelectSeq(ticks, LAMBDA t : RatLE(minTime, t))

\* the place in xs of the step that [...xs].sort((a, b) => a.time - b.time)
\* puts first: the sort is stable
FirstSorted(xs) ==
    CHOOSE i \in 1..Len(xs) :
        \A j \in 1..Len(xs) :
            RatLT(xs[i].time, xs[j].time) \/ (xs[i].time = xs[j].time /\ i <= j)

\* the render sorting the series' own array and forcing its start
StepsSortedInPlace(xs) == ForceStart(SortByTime(xs))

\* series.steps after the render: the sorted array is a copy, its elements
\* are the step objects of the series, and steps[0].survival = 100 writes into
\* the one sorted first when it is at time 0
StepsAfterRender(xs) ==
    IF xs = <<>> \/ xs[FirstSorted(xs)].time # Int2Rat(0) THEN xs
    ELSE [xs EXCEPT ![FirstSorted(xs)].survival = Int2Rat(100)]

\* ------------------------------------------------------------------------
\* deriveMappingHeuristically

\* pattern.test(s) for a pattern /word/i: s holds the word, in any letter case
Matches(s, word) ==
    LET low == ToLowerCase(s)
    IN  \E i \in 0..(Len(s) - Len(word)) : SubSeq(low, i + 1, i + Len(word)) = word

TIME_PATTERNS ==
    << <<"t", "i", "m", "e">>, <<"m", "o", "n", "t", "h">>, <<"w", "e", "e", "k">>,
       <<"d", "a", "y">>, <<"f", "o", "l", "l", "o", "w">> >>

GROUP_PATTERNS ==
    << <<"g", "r", "o", "u", "p">>, <<"a", "r", "m">>, <<"c", "o", "h", "o", "r", "t">>,
       <<"t", "r", "e", "a", "t", "m", "e", "n", "t">>,
       <<"v", "a", "r", "i", "a", "n", "t">>, <<"s", "t", "r", "a", "t", "a">> >>

EVENT_PATTERNS ==
    << <<"e", "v", "e", "n", "t">>, <<"s", "t", "a", "t", "u", "s">>,
       <<"o", "u", "t", "c", "o", "m", "e">>, <<"d", "e", "a", "d">>,
       <<"d", "e", "a", "t", "h">>, <<"f", "a", "i", "l", "u", "r", "e">>,
       <<"r", "e", "c", "u", "r", "r", "e", "n", "c", "e">> >>

SURVIVAL_PATTERNS ==
    << <<"s", "u", "r", "v", "i", "v", "a", "l">>, <<"s", "u", "r", "v">>,
       <<"p", "r", "o", "b">>, <<"p", "c", "t">>,
       <<"p", "e", "r", "c", "e", "n", "t">> >>

CENSOR_PATTERNS == << <<"c", "e", "n", "s", "o", "r">> >>

WEAK_TIME_PATTERNS ==
    << <<"m", "o", "n", "t", "h">>, <<"w", "e", "e", "k">>, <<"d", "a", "y">> >>

\* key.trim().replace(/[_\-]+/g, ' '): every run of underscores and hyphens
\* becomes one space
RECURSIVE SpaceUnderscores(_)
SpaceUnderscores(s) ==
    IF s = <<>> THEN <<>>
    ELSE IF Head(s) \in {"_", "-"}
         THEN LET rest == SpaceUnderscores(Tail(s))
              IN  IF Tail(s) # <<>> /\ s[2] \in {"_", "-"} THEN rest ELSE <<" ">> \o rest
         ELSE <<Head(s)>> \o SpaceUnderscores(Tail(s))

\* whether a key matches one of the patterns, as itself, normalized or collapsed
KeyMatches(key, patterns) ==
    LET normalized == SpaceUnderscores(Trim(key))
        collapsed  == RemoveSpaces(normalized)
    IN  \E p \in 1..Len(patterns) :
            \/ Matches(key, patterns[p])
            \/ Matches(normalized, patterns[p])
            \/ Matches(collapsed, patterns[p])

\* the first key matching one of the patterns, NoKey if none
findByPatterns(keys, patterns) ==
    LET hits == {i \in 1..Len(keys) : KeyMatches(keys[i], patterns)}
    IN  IF hits = {} THEN <<>> ELSE keys[CHOOSE i \in hits : \A j \in hits : i <= j]

\* whether the key at place i of row r is seen there for the first time
FirstSeen(rs, r, i) ==
    /\ \A j \in 1..(i - 1) : rs[r][j].k # rs[r][i].k
    /\ \A q \in 1..(r - 1) : \A j \in 1..Len(rs[q]) : rs[q][j].k # rs[r][i].k

\* the places <<row, index>> where a key is seen for the first time
FirstPlaces(rs) ==
    {p \in UNION {{<<r, i>> : i \in 1..Len(rs[r])} : r \in 1..Len(rs)} :
        FirstSeen(rs, p[1], p[2])}

PlaceBefore(p, q) == p[1] < q[1] \/ (p[1] = q[1] /\ p[2] <= q[2])

\* the union of the rows' keys, in first-seen order
collectKeys(rs) ==
    With(FirstPlaces(rs), LAMBDA firsts :
        [n \in 1..Cardinality(firsts) |->
            With(CHOOSE p \in firsts : Cardinality({q \in firsts : PlaceBefore(q, p)}) = n,
                 LAMBDA at : rs[at[1]][at[2]].k)])

\* rows.slice(0, 50) in inferGroupColumn
SAMPLE_LIMIT == 50

\* rows.slice(0, n)
Slice(rs, n) == SubSeq(rs, 1, Min(n, Len(rs)))

\* what the samples say of one column: the distinct trimmed values and how
\* many of the non-empty values parse as numbers and how many do not
ColumnStats(samples, key) ==
    LET Raw(i)  == getValue(samples[i], key)
        Text(i) == IF IsNullish(Raw(i)) THEN <<>> ELSE Trim(StringOf(Raw(i)))
        counted == {i \in 1..Len(samples) : Text(i) # <<>>}
        numeric == {i \in counted : parseNumber(Raw(i)) # Undefined}
    IN  [values       |-> {Text(i) : i \in counted},
         numericCount |-> Cardinality(numeric),
         stringCount  |-> Cardinality(counted \ numeric)]

\* the score of a column as a group candidate
TotalScore(stats) ==
    (stats.stringCount - stats.numericCount) + Min(Cardinality(stats.values), 10)

\* a column considered only when its values are mostly not numbers
IsCandidateCategoricalOnly(stats) ==
    LET size == Cardinality(stats.values)
    IN  /\ ~(size < 2 \/ size > 20)
        /\ (stats.stringCount - stats.numericCount) > 0

\* whether the loop of inferGroupColumn considers the column
IsCandidate(stats) ==
    LET size == Cardinality(stats.values)
    IN  /\ ~(size < 2 \/ size > 20)
        /\ ~((stats.stringCount - stats.numericCount) <= 0 /\ ~(size <= 10))

\* the loop of inferGroupColumn over the keys: the first candidate of the
\* highest score (a later one replaces the best only with a higher score)
BestCandidate(samples, keys, reservedKeys) ==
    With([i \in 1..Len(keys) |->
             IF keys[i] \in reservedKeys THEN [values |-> {}, numericCount |-> 0, stringCount |-> 0]
             ELSE ColumnStats(samples, keys[i])],
         LAMBDA stats :
            With({i \in 1..Len(keys) : keys[i] \notin reservedKeys /\ IsCandidate(stats[i])},
                 LAMBDA cands :
                    IF cands = {} THEN <<>>
                    ELSE keys[CHOOSE i \in cands :
                                 \A j \in cands :
                                     \/ TotalScore(stats[j]) < TotalScore(stats[i])
                                     \/ (TotalScore(stats[j]) = TotalScore(stats[i]) /\ i <= j)]))

\* inferGroupColumn: the group column, NoKey if none
inferGroupColumn(rs, keys, reservedKeys) ==
    LET explicit == findByPatterns(keys, GROUP_PATTERNS)
    IN  IF explicit # <<>> /\ explicit \notin reservedKeys THEN explicit
        ELSE BestCandidate(Slice(rs, SAMPLE_LIMIT), keys, reservedKeys)

HasKeyNamed(keys, name) == \E i \in 1..Len(keys) : keys[i] = name

\* keys.find((key) => /month|week|day/i.test(key))
FindWeakTime(keys) ==
    LET hits == {i \in 1..Len(keys) :
                    \E p \in 1..Len(WEAK_TIME_PATTERNS) : Matches(keys[i], WEAK_TIME_PATTERNS[p])}
    IN  IF hits = {} THEN <<>> ELSE keys[CHOOSE i \in hits : \A j \in hits : i <= j]

\* a heuristic result; mapping is Null or a ColumnMapping
Inference(m, confidence) == [mapping |-> m, confidence |-> confidence]

NoInference == Inference(Null, Rat(0, 1))

\* the standardized keys are looked for among three keys only
IsStandardizedOnly(keys) ==
    /\ Len(keys) = 3
    /\ HasKeyNamed(keys, <<"t", "i", "m", "e">>)
    /\ HasKeyNamed(keys, <<"s", "t", "a", "t", "u", "s">>)
    /\ HasKeyNamed(keys, <<"g", "r", "o", "u", "p">>)

\* keys.includes('time') && keys.includes('status') && keys.includes('group')
IsStandardized(keys) ==
    /\ HasKeyNamed(keys, <<"t", "i", "m", "e">>)
    /\ HasKeyNamed(keys, <<"s", "t", "a", "t", "u", "s">>)
    /\ HasKeyNamed(keys, <<"g", "r", "o", "u", "p">>)

\* the time column looked for by the weaker patterns alone
FindTimeKeyWeakOnly(keys) == FindWeakTime(keys)

\* findByPatterns(keys, TIME_PATTERNS) ?? keys.find(...)
FindTimeKey(keys) ==
    LET found == findByPatterns(keys, TIME_PATTERNS)
    IN  IF found # <<>> THEN found ELSE FindWeakTime(keys)

\* the two confidences of the event-based mapping the other way round
EventConfidenceSwapped(groupKey) == IF groupKey # <<>> THEN Rat(6, 10) ELSE Rat(8, 10)

\* groupKey ? 0.8 : 0.6
EventConfidence(groupKey) == IF groupKey # <<>> THEN Rat(8, 10) ELSE Rat(6, 10)

\* groupKey ? 0.7 : 0.5
SurvivalConfidence(groupKey) == IF groupKey # <<>> THEN Rat(7, 10) ELSE Rat(5, 10)

\* deriveMappingHeuristically once the keys are collected
DeriveFromKeys(rs, keys) ==
    IF IsStandardized(keys)
    THEN Inference([time |-> <<"t", "i", "m", "e">>, group |-> <<"g", "r", "o", "u", "p">>,
                    event |-> <<"s", "t", "a", "t", "u", "s">>,
                    censored |-> <<>>, survival |-> <<>>],
                   Rat(1, 1))
    ELSE
      LET timeKey == FindTimeKey(keys)
          eventCandidate    == findByPatterns(keys, EVENT_PATTERNS)
          survivalCandidate == findByPatterns(keys, SURVIVAL_PATTERNS)
          reserved  == ({timeKey, eventCandidate, survivalCandidate}) \ {<<>>}
          censorKey == findByPatterns(keys, CENSOR_PATTERNS)
      IN  IF timeKey = <<>> THEN NoInference
          ELSE With(inferGroupColumn(rs, keys, reserved), LAMBDA groupKey :
            IF eventCandidate # <<>>
            THEN Inference([time |-> timeKey, group |-> groupKey,
                            event |-> eventCandidate, censored |-> censorKey,
                            survival |-> <<>>],
                           EventConfidence(groupKey))
            ELSE IF survivalCandidate # <<>>
            THEN Inference([time |-> timeKey,
                            group |-> IF groupKey # <<>> THEN groupKey
                                      ELSE prettifyLabel(survivalCandidate),
                            event |-> <<>>, censored |-> censorKey,
                            survival |-> survivalCandidate],
                           SurvivalConfidence(groupKey))
            ELSE NoInference)

deriveMappingHeuristically(rs) ==
    IF rs = <<>> THEN NoInference
    ELSE With(collectKeys(rs), LAMBDA keys : DeriveFromKeys(rs, keys))

\* ------------------------------------------------------------------------
\* Column names and fixtures

kTime == <<"t", "i", "m", "e">>

kStatus == <<"s", "t", "a", "t", "u", "s">>

kGroup == <<"g", "r", "o", "u", "p">>

kMonth == <<"m", "o", "n", "t", "h">>

kPct == <<"p", "c", "t">>

kArm == <<"a", "r", "m">>

NoKey == <<>>

\* a ColumnMapping; an absent field is NoKey
Mapping(time, group, event, censored, survival) ==
    [time |-> time, group |-> group, event |-> event,
     censored |-> censored, survival |-> survival]

EventRow(time, status, group) ==
    << [k |-> kTime, v |-> time], [k |-> kStatus, v |-> status], [k |-> kGroup, v |-> group] >>

SurvivalRow(month, pct, arm) ==
    << [k |-> kMonth, v |-> month], [k |-> kPct, v |-> pct], [k |-> kArm, v |-> arm] >>

EventMapping == Mapping(kTime, kGroup, kStatus, NoKey, NoKey)

SurvivalMapping == Mapping(kMonth, kArm, NoKey, NoKey, kPct)

\* scenario 1 of the specification's section 8
Scenario1Rows ==
    << EventRow(IntV(0), IntV(1), StrV(<<"A">>)),
       EventRow(IntV(5), IntV(1), StrV(<<"A">>)),
       EventRow(IntV(5), IntV(0), StrV(<<"A">>)),
       EventRow(IntV(10), IntV(1), StrV(<<"A">>)) >>

\* scenario 4 of the specification's section 8
Scenario4Rows ==
    << SurvivalRow(IntV(0), IntV(100), StrV(<<"X">>)),
       SurvivalRow(IntV(6), IntV(80), StrV(<<"X">>)),
       SurvivalRow(IntV(12), NumV(Rat(55, 100)), StrV(<<"X">>)) >>

\* the mappings the fixtures are built with: the two scenarios' mappings, one
\* without a group, one with neither event nor survival, one without time
FixtureMappings ==
    { EventMapping, SurvivalMapping,
      Mapping(kTime, NoKey, kStatus, NoKey, NoKey),
      Mapping(kTime, kGroup, NoKey, NoKey, NoKey),
      Mapping(NoKey, kGroup, kStatus, NoKey, NoKey) }

\* longest row sequence the build is explored on
MaxRows == 3

\* the sequences of at most n elements of S
SeqsUpTo(S, n) == UNION {[1..k -> S] : k \in 0..n}

\* column names the inference is explored on
kTimeToEvent == <<"t", "i", "m", "e", "_", "t", "o", "_", "e", "v", "e", "n", "t">>

kSurvivalMonths ==
    <<"s", "u", "r", "v", "i", "v", "a", "l", "_", "m", "o", "n", "t", "h", "s">>

kSite == <<"s", "i", "t", "e">>

ColumnNames ==
    {kTime, kStatus, kGroup, kMonth, kPct, kTimeToEvent, kSurvivalMonths, sCensored, kSite}

\* most columns of the generated inference inputs
MaxKeys == 3

\* the sequences without repetition of at most n elements of S
Arrangements(S, n) ==
    {q \in SeqsUpTo(S, n) : \A i, j \in 1..Len(q) : q[i] = q[j] => i = j}

\* the value of column k in row r of an inference input: times 0 and 6,
\* percentages 100 and 80, status 1 and 0, labels A and B
ColumnValue(k, r) ==
    CASE k \in {kTime, kMonth, kTimeToEvent, kSurvivalMonths} -> IntV(6 * (r - 1))
      [] k = kPct -> IntV(120 - 20 * r)
      [] k = kStatus -> IntV(2 - r)
      [] k = sCensored -> BoolV(r = 2)
      [] OTHER -> StrV(<<IF r = 1 THEN "A" ELSE "B">>)

\* two rows with the columns ks, in that order
RowsWithColumns(ks) ==
    [r \in 1..2 |-> [i \in 1..Len(ks) |-> [k |-> ks[i], v |-> ColumnValue(ks[i], r)]]]

\* the inputs of the inference: no rows, rows with up to MaxKeys columns, the
\* standardized columns with one more column before or after them, and rows
\* with different columns each
InferenceInputs ==
    { << >> }
    \cup {RowsWithColumns(ks) : ks \in Arrangements(ColumnNames, MaxKeys)}
    \cup {RowsWithColumns(<<kTime, kStatus, kGroup, x>>) :
             x \in ColumnNames \ {kTime, kStatus, kGroup}}
    \cup {RowsWithColumns(<<x, kGroup, kStatus, kTime>>) :
             x \in ColumnNames \ {kTime, kStatus, kGroup}}
    \cup { << << [k |-> kTime, v |-> IntV(0)], [k |-> kPct, v |-> IntV(100)] >>,
               << [k |-> kStatus, v |-> IntV(1)] >>,
               << [k |-> kGroup, v |-> StrV(<<"A">>)] >> >> }

kDose == <<"d", "o", "s", "e">>

\* rows of the inputs that are longer than inferGroupColumn's sample
SampledLen == 52

\* the label 'Site A', 'Site B', ...
SiteLabel(i) == StrV(<<"S", "i", "t", "e", " ", UpperChars[i]>>)

\* kinds of columns without a telling name: one value throughout; one value
\* in the sample and another after it; three numeric codes; the letters A and
\* B; two labels; fifteen labels; fifteen numbers; a number of its own in
\* every row
ColumnKinds ==
    {"one", "late", "codes", "letters", "labels", "many", "manyNum", "ids"}

KindValue(kind, i) ==
    CASE kind = "one" -> IntV(7)
      [] kind = "late" -> IF i <= SAMPLE_LIMIT THEN SiteLabel(1) ELSE SiteLabel(2)
      [] kind = "codes" -> IntV(i % 3)
      [] kind = "letters" -> StrV(<<UpperChars[(i % 2) + 1]>>)
      [] kind = "labels" -> SiteLabel((i % 2) + 1)
      [] kind = "many" -> SiteLabel((i % 15) + 1)
      [] kind = "manyNum" -> IntV(i % 15)
      [] kind = "ids" -> IntV(i)

\* SampledLen subjects at times 0, 1 and 2 with status 0 or 1 and one more
\* column for each of the kinds given, named site and dose
SampledRows(kinds) ==
    [i \in 1..SampledLen |->
        << [k |-> kTime, v |-> IntV(i % 3)], [k |-> kStatus, v |-> IntV(i % 2)] >>
        \o [c \in 1..Len(kinds) |->
               [k |-> IF c = 1 THEN kSite ELSE kDose, v |-> KindValue(kinds[c], i)]]]

SampledInputs ==
    {SampledRows(<<a>>) : a \in ColumnKinds}
    \cup {SampledRows(<<a, b>>) : a, b \in ColumnKinds}

EventTimes == {IntV(-2), IntV(-1), IntV(0), IntV(5)}

EventRows ==
    {EventRow(t, s, StrV(<<"A">>)) : t \in EventTimes, s \in {IntV(0), IntV(1)}}
    \cup { EventRow(IntV(5), IntV(1), StrV(<<"B">>)),
           EventRow(IntV(-1), IntV(0), StrV(<<"B">>)),
           EventRow(Null, IntV(1), StrV(<<"A">>)) }

SurvivalTimes == {IntV(-1), IntV(0), IntV(6), IntV(12)}

SurvivalRows ==
    {SurvivalRow(t, p, StrV(<<"X">>)) : t \in SurvivalTimes,
                                       p \in {IntV(80), NumV(Rat(55, 100))}}
    \cup { SurvivalRow(IntV(6), IntV(90), StrV(<<"Y">>)),
           SurvivalRow(IntV(6), Null, StrV(<<"X">>)) }

\* a property of a row, none for the value undefined
Present(k, v) == IF v = Undefined THEN << >> ELSE << [k |-> k, v |-> v] >>

\* a subject of group A with the time, the status and the censoring flag
\* given, each left out of the row when undefined
ValueRow(time, status, flag) ==
    Present(kTime, time) \o Present(kStatus, status)
        \o << [k |-> kGroup, v |-> StrV(<<"A">>)] >> \o Present(sCensored, flag)

\* time values that are no number: null, absent, a boolean, the empty string,
\* strings without a digit
NoTimeValues ==
    { Null, Undefined, BoolV(TRUE), StrV(<< >>), StrV(<<"N", "/", "A">>),
      StrV(<<"u", "n", "k", "n", "o", "w", "n">>) }

StatusValues ==
    { IntV(1), IntV(0), StrV(<<"D", "e", "a", "d">>), StrV(<<"a", "l", "i", "v", "e">>),
      Undefined }

FlagValues ==
    { Undefined, BoolV(TRUE), BoolV(FALSE), StrV(<<"N", "o">>),
      StrV(<<"m", "a", "y", "b", "e">>) }

ValueRows ==
    {ValueRow(t, IntV(1), Undefined) : t \in NoTimeValues}
    \cup {ValueRow(IntV(5), st, f) : st \in StatusValues, f \in FlagValues}

ToUpperCase(s) == [i \in 1..Len(s) |-> UpperChar(s[i])]

\* one row for each token of the event vocabulary, in lower and in upper case
TokenRows ==
    {ValueRow(IntV(5), StrV(t), Undefined) : t \in EventTokens \cup CensoredTokens}
    \cup {ValueRow(IntV(5), StrV(ToUpperCase(t)), Undefined) :
             t \in EventTokens \cup CensoredTokens}

\* longest sequence of value rows the build is explored on
MaxValueRows == 2

\* the event mapping with the censoring column named
FlaggedMapping == Mapping(kTime, kGroup, kStatus, sCensored, NoKey)

\* spellings of one column name and of names close to it: with a space, with
\* an underscore, in capitals, with whitespace around it, with no separator,
\* with two underscores; another name; names of whitespace only
KeyVariants ==
    { <<"a", " ", "b">>, <<"a", "_", "b">>, <<"A", " ", "B">>, <<"A", "_", "b">>,
      <<" ", "a", " ", "b", " ">>, <<"a", "b">>, <<"a", "_", "_", "b">>,
      <<"c">>, <<" ">>, <<" ", " ">> }

\* most keys of a row the lookup is explored on
MaxLookupKeys == 2

\* the rows with at most MaxLookupKeys of the spellings as keys, in every
\* order, the i-th key holding the number i
LookupRows ==
    {[i \in 1..Len(ks) |-> [k |-> ks[i], v |-> IntV(i)]] :
        ks \in Arrangements(KeyVariants, MaxLookupKeys)}

\* ------------------------------------------------------------------------
\* buildSeries as a state machine

VARIABLES
    rows,            \* buildSeries' argument rows
    mapping,         \* buildSeries' argument mapping
    pc,              \* where the build is
    grouped,         \* the Map `grouped` of the path taken
    result,          \* the series pushed so far; the return value once pc = "done"
    gi,              \* index in grouped of the group being processed
    orderedTimes, ti,\* the sorted times of that group and the next one to process
    atRisk, survival, steps, censoredPoints, atRiskMap,  \* the group's locals
    data,            \* KaplanMeierPlot: the data prop (the name of a dataset)
    renders,         \* how many times the effect has run
    columnMapping, mappingConfidence, llmAttempted,      \* the component's state
    effect,          \* the closure of the effect run last
    stale,           \* the cleaned-up closures still awaiting their fetch
    calls, lastCall, \* onColumnMappingResolved: number of calls, last arguments
    dropped,         \* how many results met `if (cancelled) return`
    committedFor,    \* the data prop of the effect run that set columnMapping last
    inference,       \* deriveMappingHeuristically's result for rows, Null before it ran
    looked,          \* what getValue returned for the first row, Null before the lookup
    tickVals,        \* the render's ticks of the time axis
    riskCounts,      \* the render's risk table: for each series, a value for each tick
    previous         \* the rows and the series of the call of buildSeries before this one

buildVars == <<rows, mapping, pc, grouped, result, gi, orderedTimes, ti,
               atRisk, survival, steps, censoredPoints, atRiskMap, inference,
               looked, tickVals, riskCounts, previous>>

\* what the caller of buildSeries holds beside its result
callerVars == <<looked, tickVals, riskCounts, previous>>

resolveVars == <<data, renders, columnMapping, mappingConfidence, llmAttempted,
                 effect, stale, calls, lastCall, dropped, committedFor>>

vars == <<buildVars, resolveVars>>

\* the component is not part of the build
NoComponent ==
    /\ data = "none"
    /\ renders = 0
    /\ columnMapping = Null
    /\ mappingConfidence = Rat(0, 1)
    /\ llmAttempted = FALSE
    /\ effect = [pc |-> "none"]
    /\ stale = {}
    /\ calls = 0
    /\ lastCall = Null
    /\ dropped = 0
    /\ committedFor = "none"

\* which construction buildSeries dispatches to
PathOf(m) ==
    IF m.time = NoKey THEN "none"
    ELSE IF m.event # NoKey THEN "event"
    ELSE IF m.survival # NoKey THEN "survival"
    ELSE "event"

BuildInit ==
    /\ \/ rows \in SeqsUpTo(EventRows, MaxRows) /\ mapping = EventMapping /\ pc = "call"
       \/ rows \in SeqsUpTo(SurvivalRows, MaxRows) /\ mapping = SurvivalMapping /\ pc = "call"
       \/ rows \in {Scenario1Rows, Scenario4Rows} /\ mapping \in FixtureMappings /\ pc = "call"
       \/ rows \in SeqsUpTo(ValueRows, MaxValueRows) /\ mapping = EventMapping /\ pc = "call"
       \/ rows \in {<<r>> : r \in ValueRows \cup TokenRows}
              /\ mapping \in {EventMapping, FlaggedMapping} /\ pc = "call"
       \/ rows \in InferenceInputs \cup SampledInputs /\ mapping = Null /\ pc = "infer"
       \/ rows \in {<<r>> : r \in LookupRows}
              /\ mapping \in {Mapping(k, NoKey, NoKey, NoKey, NoKey) : k \in KeyVariants}
              /\ pc = "lookup"
    /\ NoComponent
    /\ inference = Null
    /\ looked = Null
    /\ tickVals = <<>>
    /\ riskCounts = <<>>
    /\ previous = Null
    /\ grouped = <<>>
    /\ result = <<>>
    /\ gi = 0
    /\ orderedTimes = <<>>
    /\ ti = 0
    /\ atRisk = 0
    /\ survival = Int2Rat(100)
    /\ steps = <<>>
    /\ censoredPoints = <<>>
    /\ atRiskMap = <<>>

\* getValue(row, timeKey) for the first row
Lookup ==
    /\ pc = "lookup"
    /\ looked' = getValue(rows[1], mapping.time)
    /\ pc' = "looked"
    /\ UNCHANGED <<rows, mapping, grouped, result, gi, orderedTimes, ti,
                   atRisk, survival, steps, censoredPoints, atRiskMap, inference,
                   tickVals, riskCounts, previous>>
    /\ UNCHANGED resolveVars

\* heuristicMapping = deriveMappingHeuristically(data)
Infer ==
    /\ pc = "infer"
    /\ inference' = With(rows, LAMBDA rs : deriveMappingHeuristically(rs))
    /\ pc' = "inferred"
    /\ UNCHANGED <<rows, mapping, grouped, result, gi, orderedTimes, ti,
                   atRisk, survival, steps, censoredPoints, atRiskMap>>
    /\ UNCHANGED <<resolveVars, callerVars>>

\* seriesList: [] without a mapping, else buildSeries(data, columnMapping),
\* with the heuristic mapping as the column mapping
UseInference ==
    /\ pc = "inferred"
    /\ IF inference.mapping = Null
       THEN /\ pc' = "done"
            /\ UNCHANGED mapping
       ELSE /\ pc' = "call"
            /\ mapping' = inference.mapping
    /\ UNCHANGED <<rows, grouped, result, gi, orderedTimes, ti,
                   atRisk, survival, steps, censoredPoints, atRiskMap, inference>>
    /\ UNCHANGED <<resolveVars, callerVars>>

\* buildSeries with no mapping.time: return []
ReturnEmpty ==
    /\ UNCHANGED <<resolveVars, inference, callerVars>>
    /\ pc = "call"
    /\ PathOf(mapping) = "none"
    /\ pc' = "done"
    /\ UNCHANGED <<rows, mapping, grouped, result, gi, orderedTimes, ti,
                   atRisk, survival, steps, censoredPoints, atRiskMap>>

\* buildEventSeries: rows.forEach, the tally into grouped
TallyRows ==
    /\ UNCHANGED <<resolveVars, inference, callerVars>>
    /\ pc = "call"
    /\ PathOf(mapping) = "event"
    /\ grouped' = TallyAll(<<>>, rows, mapping)
    /\ gi' = 1
    /\ pc' = "group"
    /\ UNCHANGED <<rows, mapping, result, orderedTimes, ti,
                   atRisk, survival, steps, censoredPoints, atRiskMap>>

\* grouped.forEach, before the loop over the times: the seeds
BeginGroup ==
    /\ UNCHANGED <<resolveVars, inference, callerVars>>
    /\ pc = "group"
    /\ gi <= Len(grouped)
    /\ LET timeline == grouped[gi].timeline
           total    == SumBuckets(timeline)
       IN  /\ orderedTimes' = OrderedTimes(timeline)
           /\ atRisk' = total
           /\ survival' = Int2Rat(100)
           /\ steps' = <<[time |-> Int2Rat(0), survival |-> Int2Rat(100), atRisk |-> total]>>
           /\ censoredPoints' = <<>>
           /\ atRiskMap' = MapSet(<<>>, Int2Rat(0), total)
    /\ ti' = 1
    /\ pc' = "times"
    /\ UNCHANGED <<rows, mapping, grouped, result, gi>>

\* a sign slip in the product-limit factor: (atRisk + events) / atRisk
NextSurvivalSignSlip(s, risk, bucket) ==
    IF bucket.events > 0 THEN RatMul(s, Rat(risk + bucket.events, risk)) ELSE s

\* the product-limit factor taken over everyone leaving the risk set, censored
\* subjects included
NextSurvivalCountsCensored(s, risk, bucket) ==
    RatMul(s, Rat(risk - (bucket.events + bucket.censored), risk))

\* survival *= (atRisk - bucket.events) / atRisk, only if bucket.events > 0
NextSurvival(s, risk, bucket) ==
    IF bucket.events > 0 THEN RatMul(s, Rat(risk - bucket.events, risk)) ELSE s

\* the risk set lowered by the censored subjects alone
NextAtRiskCensoredOnly(risk, bucket) == risk - bucket.censored

\* the risk set left as it is when the bucket holds an event
NextAtRiskKeepsEvents(risk, bucket) ==
    IF bucket.events > 0 THEN risk ELSE risk - bucket.censored

\* the risk set lowered by the events alone
NextAtRiskEventsOnly(risk, bucket) == risk - bucket.events

\* atRisk -= bucket.events + bucket.censored
NextAtRisk(risk, bucket) == risk - (bucket.events + bucket.censored)

\* orderedTimes.forEach: one time point
ProcessTime ==
    /\ UNCHANGED <<resolveVars, inference, callerVars>>
    /\ pc = "times"
    /\ ti <= Len(orderedTimes)
    /\ LET time   == orderedTimes[ti]
           bucket == grouped[gi].timeline[IndexOf(grouped[gi].timeline, time)]
           after  == NextSurvival(survival, atRisk, bucket)
       IN  /\ atRiskMap' = MapSet(atRiskMap, time, atRisk)
           /\ IF atRisk <= 0
              THEN UNCHANGED <<survival, steps, censoredPoints, atRisk>>
              ELSE /\ survival' = after
                   /\ steps' = Append(steps, [time |-> time, survival |-> after,
                                              atRisk |-> atRisk])
                   /\ censoredPoints' = censoredPoints
                          \o Repeat([time |-> time, survival |-> after], bucket.censored)
                   /\ atRisk' = NextAtRisk(atRisk, bucket)
    /\ ti' = ti + 1
    /\ UNCHANGED <<rows, mapping, pc, grouped, result, gi, orderedTimes>>

\* result.push({ group, steps, censored: censoredPoints, atRiskMap })
EndGroup ==
    /\ UNCHANGED <<resolveVars, inference, callerVars>>
    /\ pc = "times"
    /\ ti > Len(orderedTimes)
    /\ result' = Append(result, [group |-> grouped[gi].k, steps |-> steps,
                                 censored |-> censoredPoints, atRiskMap |-> atRiskMap])
    /\ gi' = gi + 1
    /\ pc' = "group"
    /\ UNCHANGED <<rows, mapping, grouped, orderedTimes, ti,
                   atRisk, survival, steps, censoredPoints, atRiskMap>>

\* buildEventSeries: return result
ReturnEvent ==
    /\ UNCHANGED <<resolveVars, inference, callerVars>>
    /\ pc = "group"
    /\ gi > Len(grouped)
    /\ pc' = "done"
    /\ UNCHANGED <<rows, mapping, grouped, result, gi, orderedTimes, ti,
                   atRisk, survival, steps, censoredPoints, atRiskMap>>

\* buildSurvivalSeries: rows.forEach, the points collected per group
CollectRows ==
    /\ UNCHANGED <<resolveVars, inference, callerVars>>
    /\ pc = "call"
    /\ PathOf(mapping) = "survival"
    /\ grouped' = CollectAll(<<>>, rows, mapping)
    /\ pc' = "normalize"
    /\ UNCHANGED <<rows, mapping, result, gi, orderedTimes, ti,
                   atRisk, survival, steps, censoredPoints, atRiskMap>>

\* buildSurvivalSeries: grouped.forEach, and return Array.from(grouped.values())
ReturnSurvival ==
    /\ UNCHANGED <<resolveVars, inference, callerVars>>
    /\ pc = "normalize"
    /\ result' = [i \in 1..Len(grouped) |->
                    LET series == NormalizeSeries(grouped[i])
                    IN  [group |-> series.k, steps |-> series.steps,
                         censored |-> series.censored, atRiskMap |-> series.atRiskMap]]
    /\ pc' = "done"
    /\ UNCHANGED <<rows, mapping, grouped, gi, orderedTimes, ti,
                   atRisk, survival, steps, censoredPoints, atRiskMap>>

\* the render of a non-empty seriesList: the ticks, the curves drawn from a
\* sorted copy of each series' steps, the risk table
Render ==
    /\ pc = "done"
    /\ mapping # Null
    /\ result # <<>>
    /\ \E ticks \in {TickVals(result)} :
          /\ tickVals' = ticks
          /\ riskCounts' = [i \in 1..Len(result) |->
                               [j \in 1..Len(ticks) |-> getAtRiskAtTime(result[i], ticks[j])]]
    /\ result' = [i \in 1..Len(result) |->
                     [result[i] EXCEPT !.steps = StepsAfterRender(@)]]
    /\ pc' = "rendered"
    /\ UNCHANGED <<rows, mapping, grouped, gi, orderedTimes, ti,
                   atRisk, survival, steps, censoredPoints, atRiskMap, inference,
                   looked, previous>>
    /\ UNCHANGED resolveVars

\* the row without the columns the mapping does not name
ProjectedRow(row, m) ==
    SelectSeq(row, LAMBDA p : p.k \in {m.time, m.group, m.event, m.survival})

Projected(rs, m) == [i \in 1..Len(rs) |-> ProjectedRow(rs[i], m)]

\* the rows of a second call of buildSeries: the same rows, and for a mapping
\* given by the caller also the rows without their unmapped columns
NextRows ==
    IF inference = Null /\ mapping # Null
    THEN {rows, Projected(rows, mapping)}
    ELSE {rows}

\* seriesList recomputed: buildSeries is called anew, with locals of its own;
\* the caller still holds the series of the call before
CallAgain(rs) ==
    /\ pc \in {"done", "rendered"}
    /\ mapping # Null
    /\ previous = Null
    /\ previous' = [rows |-> rows, result |-> result, rendered |-> pc = "rendered"]
    /\ rows' = rs
    /\ pc' = "call"
    /\ grouped' = <<>>
    /\ result' = <<>>
    /\ gi' = 0
    /\ orderedTimes' = <<>>
    /\ ti' = 0
    /\ atRisk' = 0
    /\ survival' = Int2Rat(100)
    /\ steps' = <<>>
    /\ censoredPoints' = <<>>
    /\ atRiskMap' = <<>>
    /\ UNCHANGED <<mapping, inference, looked, tickVals, riskCounts>>
    /\ UNCHANGED resolveVars

BuildNext ==
    \/ Lookup
    \/ Infer
    \/ UseInference
    \/ ReturnEmpty
    \/ TallyRows
    \/ BeginGroup
    \/ ProcessTime
    \/ EndGroup
    \/ ReturnEvent
    \/ CollectRows
    \/ ReturnSurvival
    \/ Render
    \/ \E rs \in NextRows : CallAgain(rs)

Spec == BuildInit /\ [][BuildNext]_vars

\* ------------------------------------------------------------------------
\* Properties of the build

\* buildSeries was called and took the event-based construction
OnEventPath == mapping # Null /\ PathOf(mapping) = "event"

Zero == Int2Rat(0)

Hundred == Int2Rat(100)

Step(time, surv, risk) == [time |-> Int2Rat(time), survival |-> surv, atRisk |-> risk]

\* the first step is (0, 100), every survival is in [0, 100] and no step's
\* survival is above that of the step before it
SurvivalDescends(ss) ==
    /\ Len(ss) >= 1
    /\ ss[1].time = Zero
    /\ ss[1].survival = Hundred
    /\ \A i \in 1..Len(ss) : RatLE(Zero, ss[i].survival) /\ RatLE(ss[i].survival, Hundred)
    /\ \A i \in 1..(Len(ss) - 1) : RatLE(ss[i + 1].survival, ss[i].survival)

\* C1: on the event-based path every series (returned, or under construction)
\* starts with the step (0, 100), keeps every survival in [0, 100] and never
\* raises the survival from one step to the next, in sequence order.
C1_SurvivalDescends ==
    OnEventPath =>
        /\ \A i \in 1..Len(result) : SurvivalDescends(result[i].steps)
        /\ pc = "times" => SurvivalDescends(steps)

\* a returned event-based series with two drops of the survival
C1_Witness ==
    /\ pc = "done"
    /\ OnEventPath
    /\ \E i \in 1..Len(result) :
          /\ Len(result[i].steps) >= 3
          /\ RatLT(result[i].steps[2].survival, Hundred)
          /\ RatLT(result[i].steps[3].survival, result[i].steps[2].survival)

Scenario1Built == pc = "done" /\ rows = Scenario1Rows /\ mapping = EventMapping

HasStep(ss, st) == \E i \in 1..Len(ss) : ss[i] = st

\* C2 as stated: scenario 1 gives one series for group A with total 4, the
\* steps (5, 75, atRisk 4) and (10, 37.5, atRisk 2), and 1 subject at risk
\* after the last time point.
C2_Scenario1AsStated ==
    Scenario1Built =>
        /\ Len(result) = 1
        /\ result[1].group = <<"A">>
        /\ result[1].steps[1].atRisk = 4
        /\ HasStep(result[1].steps, Step(5, Int2Rat(75), 4))
        /\ HasStep(result[1].steps, Step(10, Rat(75, 2), 2))
        /\ atRisk = 1

\* C2 amended: scenario 1 gives one series for group A with total 4; the row
\* at time 0 is an event among 4 at risk, so the steps are (0, 100, 4),
\* (0, 75, 4), (5, 50, atRisk 3), (10, 0, atRisk 1), and nobody is at risk
\* after the last time point.
C2_Scenario1 ==
    Scenario1Built =>
        /\ Len(result) = 1
        /\ result[1].group = <<"A">>
        /\ result[1].steps = << Step(0, Hundred, 4), Step(0, Int2Rat(75), 4),
                                Step(5, Int2Rat(50), 3), Step(10, Zero, 1) >>
        /\ atRisk = 0

C2_Witness == Scenario1Built /\ Len(result) = 1 /\ Len(result[1].steps) = 4

\* the bucket of the time point processed last
LastBucket ==
    grouped[gi].timeline[IndexOf(grouped[gi].timeline, orderedTimes[ti - 1])]

AfterCensoredOnlyBucket ==
    /\ OnEventPath
    /\ pc = "times"
    /\ ti > 1
    /\ LastBucket.events = 0
    /\ LastBucket.censored > 0

\* C3: once a time point whose bucket holds only censored subjects has been
\* processed, the step emitted for it has the survival of the step before it,
\* the censored points of that time are one per censored subject, all at that
\* survival, and the running at-risk count is the count recorded for that time
\* less the censored subjects.
C3_CensoredOnlyBucket ==
    AfterCensoredOnlyBucket =>
        LET n    == Len(steps)
            time == orderedTimes[ti - 1]
            here == {j \in 1..Len(censoredPoints) : censoredPoints[j].time = time}
        IN  /\ n >= 2
            /\ steps[n].time = time
            /\ steps[n].survival = steps[n - 1].survival
            /\ Cardinality(here) = LastBucket.censored
            /\ \A j \in here : censoredPoints[j].survival = steps[n - 1].survival
            /\ atRiskMap[IndexOf(atRiskMap, time)].v = steps[n].atRisk
            /\ atRisk = steps[n].atRisk - LastBucket.censored

\* a censored-only bucket processed after the survival has already dropped
C3_Witness ==
    /\ AfterCensoredOnlyBucket
    /\ RatLT(survival, Hundred)
    /\ RatLT(Zero, survival)

\* C4 as stated: in every event-based series the at-risk counts of atRiskMap,
\* read in order of increasing recorded time, never increase.
C4_AtRiskNeverIncreases ==
    OnEventPath =>
        \A i \in 1..Len(result) :
            LET m == result[i].atRiskMap
            IN  \A a, b \in 1..Len(m) : RatLT(m[a].k, m[b].k) => m[b].v <= m[a].v

\* C5 as stated: in every returned series, on either path, no step's time is
\* below the time of the step before it.
C5_StepsOrderedByTime ==
    pc = "done" =>
        \A i \in 1..Len(result) :
            \A j \in 1..(Len(result[i].steps) - 1) :
                RatLE(result[i].steps[j].time, result[i].steps[j + 1].time)

\* ------------------------------------------------------------------------
\* KaplanMeierPlot: the resolution of the column mapping
\*
\* A change of the data prop is one step with the cleanup of the previous
\* effect and the run of the next one: no response of the collaborator is
\* handled between React's render and its flush of the effects.

kDay == <<"d", "a", "y">>

kOutcome == <<"o", "u", "t", "c", "o", "m", "e">>

kX == <<"x">>

\* rows of the dataset "big": more than fetchLLMMapping samples
BigLen == 27

\* how many times the effect may run
MaxRenders == 3

Datasets == {"fast", "event", "eventNoGroup", "survival", "big", "noTime", "empty"}

RowsOf(d) ==
    CASE d = "fast" -> Scenario1Rows
      [] d = "event" ->
            << << [k |-> kDay, v |-> IntV(3)], [k |-> kOutcome, v |-> IntV(1)],
                  [k |-> kArm, v |-> StrV(<<"X">>)] >>,
               << [k |-> kDay, v |-> IntV(7)], [k |-> kOutcome, v |-> IntV(0)],
                  [k |-> kArm, v |-> StrV(<<"Y">>)] >> >>
      [] d = "eventNoGroup" ->
            << << [k |-> kDay, v |-> IntV(3)], [k |-> kOutcome, v |-> IntV(1)] >>,
               << [k |-> kDay, v |-> IntV(7)], [k |-> kOutcome, v |-> IntV(0)] >> >>
      [] d = "survival" -> Scenario4Rows
      [] d = "big" ->
            [i \in 1..BigLen |->
                << [k |-> kMonth, v |-> IntV(i)], [k |-> kPct, v |-> IntV(100 - i)] >>]
      [] d = "noTime" -> << << [k |-> kX, v |-> IntV(1)] >> >>
      [] d = "empty" -> << >>

\* useMemo(() => deriveMappingHeuristically(data), [data]), for each dataset
heuristicMapping ==
    [d \in Datasets |-> With(RowsOf(d), LAMBDA rs : deriveMappingHeuristically(rs))]

\* mappings the collaborator may answer with
LLMMappings == { Mapping(kMonth, NoKey, NoKey, NoKey, kPct),
                 Mapping(kDay, kArm, kOutcome, NoKey, NoKey) }

\* how the fetch of /api/kaplan/infer-columns may end: it rejects, it answers
\* with a non-success status, its body is not JSON, or its body is the JSON
\* payload
Outcomes ==
    { [kind |-> "networkError"], [kind |-> "status"], [kind |-> "badJson"],
      [kind |-> "json", payload |-> Null],
      [kind |-> "json", payload |-> [mapping |-> Null, confidence |-> NumV(Rat(9, 10))]] }
    \cup { [kind |-> "json", payload |-> [mapping |-> m, confidence |-> c]] :
              m \in LLMMappings, c \in {Undefined, Null, NumV(Rat(3, 10)), NumV(Rat(9, 10))} }

\* rows.slice(0, 25) of fetchLLMMapping
LLM_SAMPLE == 25

RequestBodyAllRows(rs) == [rows |-> rs]

\* the body of the request
RequestBody(rs) == [rows |-> Slice(rs, LLM_SAMPLE)]

\* fetchLLMMapping, from the outcome of its fetch: the payload, or Null
fetchLLMMapping(outcome) ==
    IF outcome.kind # "json" THEN Null
    ELSE IF outcome.payload = Null THEN Null
    ELSE IF outcome.payload.mapping = Null THEN Null
    ELSE outcome.payload

\* heuristicMapping.mapping && heuristicMapping.confidence >= 0.75
AcceptsHeuristic(h) == h.mapping # Null /\ RatLE(Rat(75, 100), h.confidence)

UsesLLMIfSurer(llmResult, h) ==
    /\ llmResult # Null
    /\ llmResult.mapping # Null
    /\ llmResult.confidence \notin {Null, Undefined}
    /\ RatLE(h.confidence, llmResult.confidence.q)

\* llmResult?.mapping
UsesLLM(llmResult, h) == llmResult # Null /\ llmResult.mapping # Null

\* llmResult.confidence ?? heuristicMapping.confidence ?? 0.5
LLMConfidence(llmResult, h) ==
    Coalesce(llmResult.confidence, Coalesce(NumV(h.confidence), NumV(Rat(5, 10)))).q

FallbackAboveThreshold(h) ==
    IF h.mapping # Null /\ RatLE(Rat(75, 100), h.confidence) THEN h ELSE NoInference

\* the heuristic result used once the collaborator gave nothing
Fallback(h) == IF h.mapping # Null THEN h ELSE NoInference

CleanupForgets(e) == e

\* the cleanup of the effect: cancelled = true
Cleanup(e) == [e EXCEPT !.cancelled = TRUE]

InFlight(e) == e.pc \in {"fetch", "microtask"}

CallArgs(m, confidence, usedLLM) ==
    [mapping |-> m, confidence |-> confidence, usedLLM |-> usedLLM]

\* resolveMapping up to its await, for the data d, as effect number n
StartEffect(d, n) ==
    \E rs \in {RowsOf(d)} : \E h \in {heuristicMapping[d]} :
        LET e == [id |-> n, input |-> d, heuristic |-> h, cancelled |-> FALSE,
                  pc |-> "returned", request |-> Null, outcome |-> Null, llmResult |-> Null]
        IN  IF AcceptsHeuristic(h)
            THEN /\ columnMapping' = h.mapping
                 /\ mappingConfidence' = h.confidence
                 /\ calls' = calls + 1
                 /\ lastCall' = CallArgs(h.mapping, h.confidence, FALSE)
                 /\ committedFor' = d
                 /\ effect' = e
                 /\ UNCHANGED <<llmAttempted, dropped>>
            ELSE /\ effect' = IF rs = <<>>
                              THEN [e EXCEPT !.pc = "microtask"]
                              ELSE [e EXCEPT !.pc = "fetch", !.request = RequestBody(rs)]
                 /\ UNCHANGED <<columnMapping, mappingConfidence, llmAttempted,
                                calls, lastCall, dropped, committedFor>>

CancelledNever(e) == FALSE

\* if (cancelled)
Cancelled(e) == e.cancelled

\* resolveMapping after its await, in the closure e, with fetchLLMMapping's result
Resume(e, llmResult) ==
    LET h == e.heuristic
    IN  IF Cancelled(e)
        THEN /\ dropped' = dropped + 1
             /\ UNCHANGED <<columnMapping, mappingConfidence, llmAttempted, calls, lastCall,
                            committedFor>>
        ELSE IF UsesLLM(llmResult, h)
        THEN /\ columnMapping' = llmResult.mapping
             /\ mappingConfidence' = LLMConfidence(llmResult, h)
             /\ llmAttempted' = TRUE
             /\ committedFor' = e.input
             /\ calls' = calls + 1
             /\ lastCall' = CallArgs(llmResult.mapping, LLMConfidence(llmResult, h), TRUE)
             /\ UNCHANGED dropped
        ELSE IF Fallback(h).mapping # Null
        THEN /\ columnMapping' = Fallback(h).mapping
             /\ mappingConfidence' = Fallback(h).confidence
             /\ committedFor' = e.input
             /\ calls' = calls + 1
             /\ lastCall' = CallArgs(Fallback(h).mapping, Fallback(h).confidence, FALSE)
             /\ UNCHANGED <<llmAttempted, dropped>>
        ELSE /\ columnMapping' = Null
             /\ mappingConfidence' = Rat(0, 1)
             /\ committedFor' = e.input
             /\ UNCHANGED <<llmAttempted, calls, lastCall, dropped>>

ResolveInit ==
    /\ data \in Datasets
    /\ renders = 0
    /\ columnMapping = Null
    /\ mappingConfidence = Rat(0, 1)
    /\ llmAttempted = FALSE
    /\ effect = [pc |-> "none"]
    /\ stale = {}
    /\ calls = 0
    /\ lastCall = Null
    /\ dropped = 0
    /\ committedFor = "none"
    /\ rows = <<>>
    /\ mapping = Null
    /\ inference = Null
    /\ looked = Null
    /\ tickVals = <<>>
    /\ riskCounts = <<>>
    /\ previous = Null
    /\ pc = "idle"
    /\ grouped = <<>>
    /\ result = <<>>
    /\ gi = 0
    /\ orderedTimes = <<>>
    /\ ti = 0
    /\ atRisk = 0
    /\ survival = Int2Rat(100)
    /\ steps = <<>>
    /\ censoredPoints = <<>>
    /\ atRiskMap = <<>>

\* the first run of the effect
Mount ==
    /\ renders = 0
    /\ renders' = 1
    /\ StartEffect(data, 1)
    /\ UNCHANGED <<data, stale>>
    /\ UNCHANGED buildVars

\* the data prop changes: the cleanup of the effect, then its next run
ChangeData(d) ==
    /\ renders >= 1
    /\ renders < MaxRenders
    /\ data' = d
    /\ renders' = renders + 1
    /\ stale' = IF InFlight(effect) THEN stale \cup {Cleanup(effect)} ELSE stale
    /\ StartEffect(d, renders + 1)
    /\ UNCHANGED buildVars

\* the fetch of the effect run last settles
FetchSettles(o) ==
    /\ effect.pc = "fetch"
    /\ Resume(effect, fetchLLMMapping(o))
    /\ effect' = [effect EXCEPT !.pc = "returned", !.outcome = o,
                                !.llmResult = fetchLLMMapping(o)]
    /\ UNCHANGED <<data, renders, stale>>
    /\ UNCHANGED buildVars

\* fetchLLMMapping of the effect run last returned null for empty rows
EmptyReturns ==
    /\ effect.pc = "microtask"
    /\ Resume(effect, Null)
    /\ effect' = [effect EXCEPT !.pc = "returned"]
    /\ UNCHANGED <<data, renders, stale>>
    /\ UNCHANGED buildVars

\* the fetch of the effect run last gets no response: no timer and no abort
\* signal are attached to it, so its promise stays pending
FetchUnanswered ==
    /\ effect.pc = "fetch"
    /\ effect' = [effect EXCEPT !.pc = "unanswered"]
    /\ UNCHANGED <<data, renders, stale, columnMapping, mappingConfidence,
                   llmAttempted, calls, lastCall, dropped, committedFor>>
    /\ UNCHANGED buildVars

\* the fetch of a cleaned-up effect settles
StaleFetchSettles(e, o) ==
    /\ e \in stale
    /\ e.pc = "fetch"
    /\ Resume(e, fetchLLMMapping(o))
    /\ stale' = stale \ {e}
    /\ UNCHANGED <<data, renders, effect>>
    /\ UNCHANGED buildVars

\* fetchLLMMapping of a cleaned-up effect returned null for empty rows
StaleEmptyReturns(e) ==
    /\ e \in stale
    /\ e.pc = "microtask"
    /\ Resume(e, Null)
    /\ stale' = stale \ {e}
    /\ UNCHANGED <<data, renders, effect>>
    /\ UNCHANGED buildVars

ResolveNext ==
    \/ Mount
    \/ \E d \in Datasets : ChangeData(d)
    \/ \E o \in Outcomes : FetchSettles(o)
    \/ EmptyReturns
    \/ FetchUnanswered
    \/ \E e \in stale : \E o \in Outcomes : StaleFetchSettles(e, o)
    \/ \E e \in stale : StaleEmptyReturns(e)

SpecResolve == ResolveInit /\ [][ResolveNext]_vars

\* the event loop runs the continuation of every promise that settles
SpecResolveFair ==
    /\ SpecResolve
    /\ WF_vars(\E o \in Outcomes : FetchSettles(o))
    /\ WF_vars(EmptyReturns)
    /\ WF_vars(\E e \in stale : \E o \in Outcomes : StaleFetchSettles(e, o))
    /\ WF_vars(\E e \in stale : StaleEmptyReturns(e))

\* ------------------------------------------------------------------------
\* Properties of the resolution

\* the result of a cleaned-up closure arrives
StaleResultArrives == \E e \in stale : stale' = stale \ {e}

\* C6: when the rows changed while a call for the earlier rows was in
\* flight, the arrival of that call's result, whatever it is, leaves the
\* committed mapping and confidence as they are and calls
\* onColumnMappingResolved not at all.
C6_StaleResultDiscarded ==
    [][StaleResultArrives =>
          /\ columnMapping' = columnMapping
          /\ mappingConfidence' = mappingConfidence
          /\ calls' = calls
          /\ lastCall' = lastCall]_vars

\* a result was discarded while a mapping was committed and a newer call is
\* still in flight
C6_Witness ==
    /\ dropped >= 1
    /\ columnMapping # Null
    /\ effect.pc = "fetch"

\* the heuristic result for the rows the component has now
LatestHeuristic == heuristicMapping[data]

\* the resolution of the latest input, given how its call ended:
\* <<mapping, confidence>>
LatestResolution ==
    With(LatestHeuristic, LAMBDA h :
        LET r == IF effect.outcome = Null THEN Null ELSE fetchLLMMapping(effect.outcome)
        IN  IF h.mapping # Null /\ RatLE(Rat(3, 4), h.confidence)
            THEN <<h.mapping, h.confidence>>
            ELSE IF r # Null
            THEN <<r.mapping,
                   IF r.confidence \in {Null, Undefined} THEN h.confidence
                   ELSE r.confidence.q>>
            ELSE IF h.mapping # Null THEN <<h.mapping, h.confidence>>
            ELSE <<Null, Rat(0, 1)>>)

\* every call has returned
Quiescent == effect.pc = "returned" /\ stale = {}

\* the call for the latest input has returned
LatestReturned == effect.pc = "returned"

\* C7: once the call for the latest input has returned, and so once every
\* call has returned, the committed mapping and confidence are those of the
\* resolution of the latest input, in whatever order the calls of earlier
\* inputs return; and until the input changes again they stay as they are.
C7_LastRequestWins ==
    /\ [](LatestReturned => <<columnMapping, mappingConfidence>> = LatestResolution)
    /\ [][(LatestReturned /\ renders' = renders) =>
             /\ columnMapping' = columnMapping
             /\ mappingConfidence' = mappingConfidence]_vars

\* three inputs, the calls of the first two overlapped the third and were
\* discarded, every call has returned
C7_Witness ==
    /\ Quiescent
    /\ renders = MaxRenders
    /\ dropped >= 2
    /\ effect.outcome # Null

\* the first n rows
FirstRows(rs, n) == [i \in 1..n |-> rs[i]]

\* C8: for non-empty rows, the collaborator is called exactly when the
\* heuristic confidence is below 0.75, with the first min(25, n) of the n
\* rows; at 0.75 and above the heuristic mapping is committed and reported
\* with usedLLM = false and there is no call.
C8_CallBelowThreshold ==
    (effect.pc # "none" /\ RowsOf(data) # <<>>) =>
        LET rs == RowsOf(data)
            h  == LatestHeuristic
        IN  IF RatLT(h.confidence, Rat(3, 4))
            THEN /\ effect.request # Null
                 /\ effect.request.rows = FirstRows(rs, Min(25, Len(rs)))
            ELSE /\ effect.request = Null
                 /\ effect.pc = "returned"
                 /\ columnMapping = h.mapping
                 /\ mappingConfidence = h.confidence
                 /\ lastCall = CallArgs(h.mapping, h.confidence, FALSE)

\* a call with more rows than the sample holds
C8_Witness ==
    /\ effect.pc = "fetch"
    /\ Len(RowsOf(data)) > 25
    /\ Len(effect.request.rows) = 25

\* the call for the latest input returned a mapping
LLMAnswered ==
    /\ effect.pc = "returned"
    /\ effect.outcome # Null
    /\ fetchLLMMapping(effect.outcome) # Null

\* C9: when the heuristic confidence is below 0.75 and the collaborator
\* returns a mapping for the current input, that mapping is committed and
\* reported with usedLLM = true whatever its confidence; the committed
\* confidence is the collaborator's if it gives one, else the heuristic's.
C9_LLMMappingAccepted ==
    LLMAnswered =>
        LET h == LatestHeuristic
            r == effect.outcome.payload
            c == IF r.confidence \in {Null, Undefined} THEN h.confidence ELSE r.confidence.q
        IN  /\ RatLT(h.confidence, Rat(3, 4))
            /\ columnMapping = r.mapping
            /\ mappingConfidence = c
            /\ llmAttempted
            /\ lastCall = CallArgs(r.mapping, c, TRUE)

\* a mapping of the collaborator committed with a confidence below the
\* heuristic's
C9_Witness ==
    /\ LLMAnswered
    /\ effect.outcome.payload.confidence = NumV(Rat(3, 10))
    /\ LatestHeuristic.confidence = Rat(7, 10)
    /\ lastCall.usedLLM

\* the call for the latest input failed or returned no mapping
LLMFailed ==
    /\ effect.pc = "returned"
    /\ effect.outcome # Null
    /\ \/ effect.outcome.kind \in {"networkError", "status", "badJson"}
       \/ effect.outcome.payload = Null
       \/ effect.outcome.payload.mapping = Null

\* C10: when the call fails (network error, non-success status, malformed
\* body) or returns no mapping, the resolution ends without a failure: it
\* commits and reports the heuristic mapping with the heuristic's confidence
\* and usedLLM = false if there is one, even below 0.75, and else commits
\* mapping null with confidence 0 over whatever was committed before.
C10_FallbackOnFailure ==
    LLMFailed =>
        LET h == LatestHeuristic
        IN  IF h.mapping # Null
            THEN /\ columnMapping = h.mapping
                 /\ mappingConfidence = h.confidence
                 /\ lastCall = CallArgs(h.mapping, h.confidence, FALSE)
            ELSE /\ columnMapping = Null
                 /\ mappingConfidence = Rat(0, 1)

\* a failed call for rows without a heuristic mapping took the place of a
\* mapping committed for earlier rows
C10_Witness ==
    /\ LLMFailed
    /\ LatestHeuristic.mapping = Null
    /\ columnMapping = Null
    /\ renders = 2
    /\ calls = 1

\* C11 as stated: a resolution whose heuristic confidence is below 0.75 and
\* whose call is never answered still ends, with the heuristic mapping (or
\* null and confidence 0) committed.
C11_UnansweredCallResolves ==
    (effect.pc = "unanswered") ~> (effect.pc = "returned")

\* ------------------------------------------------------------------------
\* Properties of the inference

\* the union of the keys of the rows
RowKeys == UNION {{rows[r][i].k : i \in 1..Len(rows[r])} : r \in 1..Len(rows)}

\* the heuristic has run on rows
Inferred == inference # Null

HasColumnLike(patterns) == \E k \in RowKeys : KeyMatches(k, patterns)

HasStandardizedKeys == {kTime, kStatus, kGroup} \subseteq RowKeys

\* C12: whenever the union of the row keys contains the keys time, status and
\* group, the result is exactly the mapping {time: 'time', event: 'status',
\* group: 'group'} with confidence 1, whatever other columns there are.
C12_FastPath ==
    (Inferred /\ HasStandardizedKeys) =>
        inference = Inference(Mapping(kTime, kGroup, kStatus, NoKey, NoKey), Rat(1, 1))

\* the standardized columns after a column named censored
C12_Witness ==
    /\ Inferred
    /\ HasStandardizedKeys
    /\ Len(rows[1]) = 4
    /\ rows[1][1].k = sCensored
    /\ inference.confidence = Rat(1, 1)

\* the mapping's group is a column of the rows other than the mapping's own
\* time, event and survival columns
GroupColumnFound(m) ==
    /\ m.group # NoKey
    /\ m.group \in RowKeys
    /\ m.group \notin {m.time, m.event, m.survival}

\* C13: outside the fast path a non-null result has confidence 0.8 when it
\* is event-based with a group column, 0.6 when event-based without, 0.7
\* when survival-based with a group column and 0.5 when survival-based
\* without; with both an event-pattern and a survival-pattern column the
\* result is event-based.
C13_Confidences ==
    (Inferred /\ ~HasStandardizedKeys /\ inference.mapping # Null) =>
        LET m == inference.mapping
        IN  /\ IF m.event # NoKey
               THEN /\ m.survival = NoKey
                    /\ inference.confidence =
                           IF GroupColumnFound(m) THEN Rat(8, 10) ELSE Rat(6, 10)
               ELSE /\ m.survival # NoKey
                    /\ inference.confidence =
                           IF GroupColumnFound(m) THEN Rat(7, 10) ELSE Rat(5, 10)
            /\ (HasColumnLike(EVENT_PATTERNS) /\ HasColumnLike(SURVIVAL_PATTERNS)) =>
                   (m.event # NoKey /\ m.survival = NoKey)

\* an event-pattern column beside a survival-pattern column, no group column
C13_Witness ==
    /\ Inferred
    /\ RowKeys = {kMonth, kPct, kStatus}
    /\ inference.confidence = Rat(6, 10)
    /\ inference.mapping.event = kStatus

\* C14: the result is {mapping: null, confidence: 0} exactly when there are no
\* rows, or no column name matches a time pattern, or none matches an event
\* or survival pattern; every other result has a mapping with a time field
\* and a confidence above 0.
C14_NullExactlyWhen ==
    Inferred =>
        /\ inference.mapping = Null <=>
              \/ rows = << >>
              \/ ~HasColumnLike(TIME_PATTERNS)
              \/ ~(HasColumnLike(EVENT_PATTERNS) \/ HasColumnLike(SURVIVAL_PATTERNS))
        /\ inference.mapping = Null => inference.confidence = Rat(0, 1)
        /\ inference.mapping # Null =>
              /\ inference.mapping.time # NoKey
              /\ RatLT(Rat(0, 1), inference.confidence)

\* a time column and neither an event nor a survival column
C14_Witness ==
    /\ Inferred
    /\ RowKeys = {kTime, kSite}
    /\ inference = NoInference

\* C15 as stated: in every non-null mapping the event column and the
\* survival column are not the time column.
C15_SearchesExcludeTime ==
    (Inferred /\ inference.mapping # Null) =>
        /\ inference.mapping.event # inference.mapping.time
        /\ inference.mapping.survival # inference.mapping.time

\* ------------------------------------------------------------------------
\* Properties of the tally

RECURSIVE SumOver(_, _)
\* the sum of f[i] over the indices in S
SumOver(f, S) ==
    IF S = {} THEN 0
    ELSE LET i == CHOOSE j \in S : TRUE IN f[i] + SumOver(f, S \ {i})

\* the rows were tallied by buildEventSeries
Tallied == OnEventPath /\ pc \in {"group", "times", "done", "rendered"}

\* the subjects counted as events, and as censored, over all groups
EventsTallied ==
    SumOver([g \in 1..Len(grouped) |->
                SumOver([b \in 1..Len(grouped[g].timeline) |-> grouped[g].timeline[b].events],
                        1..Len(grouped[g].timeline))],
            1..Len(grouped))

CensoredTallied ==
    SumOver([g \in 1..Len(grouped) |->
                SumOver([b \in 1..Len(grouped[g].timeline) |-> grouped[g].timeline[b].censored],
                        1..Len(grouped[g].timeline))],
            1..Len(grouped))

\* the value is no number: null, absent, a boolean, or a string without a digit
NotANumber(v) ==
    \/ IsNullish(v)
    \/ v.t = "boolean"
    \/ v.t = "string" /\ \A i \in 1..Len(v.s) : ~IsDigit(v.s[i])

\* the rows whose time the code parses
RowsWithTime == {r \in 1..Len(rows) : parseNumber(getValue(rows[r], mapping.time)) # Undefined}

\* C16 as stated, for the event-based construction: rows whose time value is
\* no number contribute to no series, so the subjects of the returned series
\* are the rows with a time; if there is no such row, the result is empty.
C16_RowsWithoutTimeDropped ==
    (OnEventPath /\ pc = "done") =>
        LET timed == {r \in 1..Len(rows) : ~NotANumber(getValue(rows[r], mapping.time))}
        IN  /\ SumOver([i \in 1..Len(result) |-> result[i].steps[1].atRisk],
                       1..Len(result)) = Cardinality(timed)
            /\ timed = {} => result = << >>

\* the explicit censoring flag of a row, as the code looks it up
FlagOf(row) == parseBoolean(getValue(row, sCensored))

\* the reading of the event column the claim gives: a number is an event iff
\* it is above 0, the tokens of either vocabulary in any letter case, an
\* absent value is an event; any other value as the code reads it
StatusAsClaimed(row) ==
    LET raw == getValue(row, mapping.event)
    IN  IF IsNullish(raw) THEN TRUE
        ELSE IF raw.t = "number" /\ raw.finite THEN raw.q.n > 0
        ELSE IF raw.t = "string" /\ ToLowerCase(Trim(raw.s)) \in EventTokens THEN TRUE
        ELSE IF raw.t = "string" /\ ToLowerCase(Trim(raw.s)) \in CensoredTokens THEN FALSE
        ELSE IsEvent(row, mapping.event)

\* C17 as stated: without an explicit censoring flag, the subjects tallied as
\* events are those whose event column is a number above 0, one of the event
\* tokens, or absent, and the others are tallied as censored.
C17_EventVocabulary ==
    (Tallied /\ \A r \in 1..Len(rows) : FlagOf(rows[r]) = Undefined) =>
        /\ EventsTallied = Cardinality({r \in RowsWithTime : StatusAsClaimed(rows[r])})
        /\ CensoredTallied = Cardinality({r \in RowsWithTime : ~StatusAsClaimed(rows[r])})

\* C18 as stated: a subject with an explicit censoring flag the boolean
\* parser accepts is tallied as censored iff the flag is true and as an event
\* iff it is false, whatever the event column holds; without such a flag it is
\* tallied as censored iff it is not an event.
C18_FlagDecidesTally ==
    Tallied =>
        EventsTallied =
            Cardinality({r \in RowsWithTime :
                            IF FlagOf(rows[r]) # Undefined THEN ~FlagOf(rows[r]).b
                            ELSE IsEvent(rows[r], mapping.event)})

\* C18: a subject with an explicit censoring flag the boolean parser accepts
\* is tallied as censored if the flag is true, and if the flag is false it is
\* tallied as an event only when the event column makes it one, and else as
\* censored; without such a flag it is tallied as censored iff it is not an
\* event.
C18_FlagSetsCensored ==
    Tallied =>
        LET asEvents == {r \in RowsWithTime :
                            /\ IsEvent(rows[r], mapping.event)
                            /\ FlagOf(rows[r]) # Undefined => ~FlagOf(rows[r]).b}
        IN  /\ EventsTallied = Cardinality(asEvents)
            /\ CensoredTallied = Cardinality(RowsWithTime \ asEvents)

\* an event the flag turns into a censored subject, beside a subject that is
\* no event and whose flag is false
C18_Witness ==
    /\ Tallied
    /\ rows = << ValueRow(IntV(5), IntV(1), BoolV(TRUE)),
                 ValueRow(IntV(5), IntV(0), BoolV(FALSE)) >>
    /\ EventsTallied = 0
    /\ CensoredTallied = 2

\* ------------------------------------------------------------------------
\* Properties of the survival-percentage path

\* buildSeries was called, took the survival-percentage construction and
\* has returned
SurvivalBuilt == mapping # Null /\ pc = "done" /\ PathOf(mapping) = "survival"

Point(time, percent) == [time |-> Int2Rat(time), survival |-> Int2Rat(percent)]

\* C19 as stated: every series of the survival-percentage path (here: those
\* without a negative time) has exactly one step at time 0, with survival
\* 100, a source row at time 0 being overwritten and not kept beside a
\* synthetic point; and scenario 4 gives exactly the steps (0,100), (6,80),
\* (12,55) for group X.
C19_OneStepAtZero ==
    SurvivalBuilt =>
        /\ \A i \in 1..Len(result) :
              LET ss == result[i].steps
              IN  (\A j \in 1..Len(ss) : RatLE(Zero, ss[j].time)) =>
                      /\ Cardinality({j \in 1..Len(ss) : ss[j].time = Zero}) = 1
                      /\ ss[1] = Point(0, 100)
        /\ (rows = Scenario4Rows /\ mapping = SurvivalMapping) =>
              /\ Len(result) = 1
              /\ result[1].group = <<"X">>
              /\ result[1].steps = << Point(0, 100), Point(6, 80), Point(12, 55) >>

\* the rows have two columns, which the heuristic took as the time and the
\* survival column, and the series were built with the heuristic's mapping
SurvivalShapedBuilt ==
    /\ Inferred
    /\ inference.mapping # Null
    /\ pc = "done"
    /\ mapping = inference.mapping
    /\ mapping.event = NoKey
    /\ mapping.time # mapping.survival
    /\ RowKeys = {mapping.time, mapping.survival}

\* C20 as stated: survival-shaped rows without a group column, built with the
\* mapping the heuristic returns for them, give exactly one series, labelled
\* with the prettified survival column name, with a step for every row.
C20_OneSeriesWithoutGroup ==
    SurvivalShapedBuilt =>
        /\ Len(result) = 1
        /\ result[1].group = prettifyLabel(mapping.survival)
        /\ Len(result[1].steps) >= Len(rows)

\* ------------------------------------------------------------------------
\* Properties of the risk table

\* the render has drawn the series
Rendered == pc = "rendered"

\* the places of the at-risk map whose recorded time is at most q
RecordedUpTo(map, q) == {i \in 1..Len(map) : RatLE(map[i].k, q)}

\* the value the lookup is to return: the 'no data' text for an empty map,
\* the value recorded at the largest recorded time <= q (which is q itself
\* when q is recorded), the first step's at-risk value when there is none
ExpectedAtRisk(series, q) ==
    LET map     == series.atRiskMap
        earlier == RecordedUpTo(map, q)
    IN  IF map = <<>> THEN StrV(sNoData)
        ELSE IF earlier = {} THEN IntV(series.steps[1].atRisk)
        ELSE IntV(map[CHOOSE i \in earlier :
                          \A j \in earlier : RatLE(map[j].k, map[i].k)].v)

C21_NoDataWitness ==
    /\ Rendered
    /\ PathOf(mapping) = "survival"
    /\ \E i \in 1..Len(result) : \E j \in 1..Len(tickVals) :
          riskCounts[i][j] = StrV(sNoData)

\* ------------------------------------------------------------------------
\* Properties of getValue

\* getValue has returned for the first row and the key mapping.time
LookedUp == pc = "looked"

\* a key with its letters in lower case, no whitespace around it and a space
\* for every underscore
Respelled(key) ==
    LET t == Trim(key)
    IN  ToLowerCase([i \in 1..Len(t) |-> IF t[i] = "_" THEN " " ELSE t[i]])

\* equal up to letter case, surrounding whitespace and underscores for spaces
Equivalent(a, b) == Respelled(a) = Respelled(b)

\* the characters of a key that are neither whitespace nor underscores, in
\* lower case
Bare(key) ==
    LET kept == SelectSeq(key, LAMBDA c : c \notin {" ", "\t", "\n", "_"})
    IN  [i \in 1..Len(kept) |-> LowerChar(kept[i])]

\* the places of the row's keys that are equivalent to the key
EquivalentKeys(row, key) == {i \in 1..Len(row) : Equivalent(row[i].k, key)}

\* the places of the row's keys that have the key's letters
SameLetters(row, key) == {i \in 1..Len(row) : Bare(row[i].k) = Bare(key)}

\* C22 as stated: for a row with exactly one key equivalent to the requested
\* key up to letter case, surrounding whitespace and underscores for spaces,
\* getValue returns the value stored under that key; and when the row holds
\* the requested key itself, it returns that key's value.
C22_EquivalentKeyFound ==
    LookedUp =>
        LET row == rows[1]
            key == mapping.time
            eq  == EquivalentKeys(row, key)
        IN  /\ Cardinality(eq) = 1 => \A i \in eq : looked = row[i].v
            /\ HasKey(row, key) => looked = Prop(row, key)

\* C22 amended: the same, for a requested key with a character that is
\* neither whitespace nor an underscore and a row with no other key of the
\* same letters once case, whitespace and underscores are disregarded.
C22_OnlyKeyOfItsLetters ==
    LookedUp =>
        LET row == rows[1]
            key == mapping.time
            eq  == EquivalentKeys(row, key)
        IN  /\ (Cardinality(eq) = 1 /\ Bare(key) # <<>> /\ SameLetters(row, key) = eq)
                   => \A i \in eq : looked = row[i].v
            /\ HasKey(row, key) => looked = Prop(row, key)

\* the row holds the key in another spelling, behind another key, and the
\* lookup returned the value stored under that spelling
C22_Witness ==
    /\ LookedUp
    /\ Len(rows[1]) = 2
    /\ ~HasKey(rows[1], mapping.time)
    /\ Bare(mapping.time) # <<>>
    /\ EquivalentKeys(rows[1], mapping.time) = {2}
    /\ SameLetters(rows[1], mapping.time) = {2}
    /\ looked = rows[1][2].v

\* ------------------------------------------------------------------------
\* Properties of repeated calls

\* buildSeries has returned for the second time
ReturnedAgain == previous # Null /\ pc = "done"

\* C23: a second call of buildSeries with the same rows and mapping, also
\* after a render of the first result, returns the series the first call
\* returned, with the same steps, censored points and at-risk maps; the
\* render leaves the series it draws as they are; and no step of a call or of
\* the render changes the rows.
C23_NoHiddenState ==
    /\ []((ReturnedAgain /\ previous.rows = rows) => result = previous.result)
    /\ [][pc' = "rendered" => result' = result]_vars
    /\ [][previous' = previous => rows' = rows]_vars

\* the second call returned after a render of the first result whose sorted
\* copy began with a step at time 0 that is not the first step of the series
C23_Witness ==
    /\ ReturnedAgain
    /\ previous.rows = rows
    /\ previous.rendered
    /\ \E i \in 1..Len(result) :
          /\ Len(result[i].steps) >= 3
          /\ FirstSorted(result[i].steps) # 1
    /\ \E i \in 1..Len(result) :
          /\ FirstSorted(result[i].steps) = 1
          /\ Len(result[i].steps) >= 2
          /\ result[i].steps[2].time = Int2Rat(0)

\* C29: with no censored field in the mapping, rows that differ only in
\* columns the mapping does not name give the same series.
C29_OnlyMappedColumns ==
    (ReturnedAgain /\ mapping.censored = NoKey /\ previous.rows # rows)
        => result = previous.result

\* ------------------------------------------------------------------------
\* Properties of the risk set

\* buildEventSeries has returned
EventBuilt == OnEventPath /\ pc = "done"

\* the rows counted in a group: those with a time that parses and the
\* group's label
SubjectsOf(group) ==
    {r \in RowsWithTime : GroupOf(rows[r], mapping.group, sGroup) = group}

TimeOf(r) == parseNumber(getValue(rows[r], mapping.time)).q

\* the subjects of a group still under observation just before time t
AtRiskBefore(group, t) == {r \in SubjectsOf(group) : RatLE(t, TimeOf(r))}

\* C24: for every series of the event-based path and every time t observed
\* in its group, the count recorded in atRiskMap at t, which the step emitted
\* at t carries too, is the number of counted subjects of the group whose
\* time is >= t.
C24_AtRiskBeforeTime ==
    EventBuilt =>
        \A i \in 1..Len(result) :
            \A r \in SubjectsOf(result[i].group) :
                LET t     == TimeOf(r)
                    count == Cardinality(AtRiskBefore(result[i].group, t))
                    map   == result[i].atRiskMap
                    ss    == result[i].steps
                IN  /\ IndexOf(map, t) # 0
                    /\ map[IndexOf(map, t)].v = count
                    /\ \E j \in 2..Len(ss) : ss[j].time = t /\ ss[j].atRisk = count

\* scenario 1: four subjects at risk before time 0, three before the event
\* and the censoring at time 5, one before time 10
C24_Witness ==
    /\ Scenario1Built
    /\ Len(result) = 1
    /\ \E a, b, c \in 1..Len(result[1].atRiskMap) :
          /\ result[1].atRiskMap[a] = [k |-> Int2Rat(0), v |-> 4]
          /\ result[1].atRiskMap[b] = [k |-> Int2Rat(5), v |-> 3]
          /\ result[1].atRiskMap[c] = [k |-> Int2Rat(10), v |-> 1]

\* the bucket of the time point processed next
CurrentBucket ==
    grouped[gi].timeline[IndexOf(grouped[gi].timeline, orderedTimes[ti])]

\* the subjects of a timeline tallied as censored
CensoredIn(timeline) ==
    SumOver([b \in 1..Len(timeline) |-> timeline[b].censored], 1..Len(timeline))

\* C26: every row with a time that parses is in the tally exactly once, as an
\* event or as censored, in the one group of its label; at every time point
\* processed the running at-risk count is at least the bucket's events and
\* censored together and at least 1; after the last time point it is 0, there
\* is one step for every distinct time beside the seeded one, and there are as
\* many censored points as subjects tallied as censored.
C26_RiskSetExhausted ==
    Tallied =>
        /\ \A g, h \in 1..Len(grouped) : grouped[g].k = grouped[h].k => g = h
        /\ \A r \in RowsWithTime :
               \E g \in 1..Len(grouped) :
                   grouped[g].k = GroupOf(rows[r], mapping.group, sGroup)
        /\ \A g \in 1..Len(grouped) :
               SumBuckets(grouped[g].timeline) = Cardinality(SubjectsOf(grouped[g].k))
        /\ EventsTallied + CensoredTallied = Cardinality(RowsWithTime)
        /\ (pc = "times" /\ ti <= Len(orderedTimes)) =>
               /\ atRisk >= CurrentBucket.events + CurrentBucket.censored
               /\ atRisk >= 1
        /\ (pc = "times" /\ ti > Len(orderedTimes)) =>
               /\ atRisk = 0
               /\ Len(steps) = 1 + Len(grouped[gi].timeline)
               /\ Len(censoredPoints) = CensoredIn(grouped[gi].timeline)
        /\ pc = "done" =>
               \A i \in 1..Len(result) :
                   /\ Len(result[i].steps) = 1 + Len(grouped[i].timeline)
                   /\ Len(result[i].censored) = CensoredIn(grouped[i].timeline)

\* a group with two subjects at two times, one of them censored, has been
\* processed to its last time point, beside another group
C26_Witness ==
    /\ Tallied
    /\ pc = "times"
    /\ ti > Len(orderedTimes)
    /\ Len(grouped) = 2
    /\ Len(orderedTimes) = 2
    /\ SumBuckets(grouped[gi].timeline) = 2
    /\ Len(censoredPoints) = 1
    /\ atRisk = 0

\* ------------------------------------------------------------------------
\* Properties of the group column

\* the heuristic has just run on the rows
JustInferred == pc = "inferred"

\* the rows the group column is decided from
SampleOf(k) ==
    {r \in 1..Min(Len(rows), 50) :
        /\ HasKey(rows[r], k)
        /\ ~IsNullish(Prop(rows[r], k))
        /\ Trim(StringOf(Prop(rows[r], k))) # <<>>}

\* the distinct non-empty values of column k in the sample
DistinctValues(k) == {Trim(StringOf(Prop(rows[r], k))) : r \in SampleOf(k)}

\* how many values of column k in the sample read as a number
NumericValues(k) ==
    Cardinality({r \in SampleOf(k) : parseNumber(Prop(rows[r], k)) # Undefined})

\* how many do not: the string-like ones
StringLikeValues(k) == Cardinality(SampleOf(k)) - NumericValues(k)

Eligible(k) ==
    LET distinct == Cardinality(DistinctValues(k))
    IN  /\ distinct >= 2
        /\ distinct <= 20
        /\ (distinct <= 10 \/ StringLikeValues(k) > NumericValues(k))

Score(k) ==
    StringLikeValues(k) - NumericValues(k) + Min(Cardinality(DistinctValues(k)), 10)

\* the first of the keys, in key order, that matches one of the patterns
FirstLike(keys, patterns) ==
    LET hits == {i \in 1..Len(keys) : KeyMatches(keys[i], patterns)}
    IN  IF hits = {} THEN {} ELSE {keys[CHOOSE i \in hits : \A j \in hits : i <= j]}

C30_GroupApartFromRoles ==
    (Inferred /\ inference.mapping # Null /\ inference.mapping.group # NoKey) =>
        inference.mapping.group \notin
            {inference.mapping.censored, inference.mapping.time,
             inference.mapping.event, inference.mapping.survival}

\* ------------------------------------------------------------------------
\* Properties of the committed mapping

\* C27: at every moment, a call for newly arrived rows in flight or not, the
\* committed mapping is null or was resolved from the rows the component has
\* now.
C27_MappingOfCurrentRows == columnMapping = Null \/ committedFor = data

\* C28: once the resolution of the latest input has completed, the triple
\* that onColumnMappingResolved was called with last agrees with the committed
\* mapping and confidence, also when that resolution ended with no mapping.
C28_LastReportAgrees ==
    LatestReturned =>
        IF lastCall = Null THEN columnMapping = Null
        ELSE /\ lastCall.mapping = columnMapping
             /\ lastCall.confidence = mappingConfidence
====
